---- MODULE Spec2Model ----
(***************************************************************************)
(* Velocity: the hypothesis lifecycle engine.                              *)
(*                                                                         *)
(* Python objects live on a heap: `hyp` holds the Hypothesis objects,      *)
(* `states` the CognitiveState objects and `lists` the evidence lists that *)
(* the `knowledge` dictionaries refer to.  A dictionary is kept as its     *)
(* sequence of (topic, list reference) items in insertion order, so that   *)
(* dict.copy() copies the references and not the lists.                    *)
(*                                                                         *)
(* Numbers: confidences and severities are hundredths (0.7 is 70), costs   *)
(* and budgets are tenths (5.0 is 50).  Means are taken with integer       *)
(* division.                                                               *)
(***************************************************************************)
EXTENDS Integers, Sequences, FiniteSets, TLC

VARIABLES
    entry,              \* which public entry point this behaviour exercises
    config,             \* constructor arguments of VelocityCore / the engine
    estimator,          \* "builtin" | "injected" evidence-confidence heuristic
    intent,             \* IntentGraph handed to the router and the generator
    strategies,         \* list of SourceStrategy produced by the router
    hyp,                \* heap: Hypothesis objects, by identity
    states,             \* heap: CognitiveState objects, by identity
    lists,              \* heap: evidence lists, by identity
    hypotheses,         \* execute's / the caller's list of hypothesis identities
    tasks,              \* one record per InterrogationLoop.run coroutine
    results,            \* list of InterrogationResult
    phase,              \* position of the orchestrator
    output,             \* what execute returned (or that it raised)
    forked_hypotheses,  \* execute's list of forks
    surviving,          \* execute's list of survivors
    eliminated,         \* execute's list of eliminated hypotheses
    source_calls,       \* number of Evidence Source calls issued so far
    last_call           \* the CognitiveState API call made last (state sandbox)

vars == <<entry, config, estimator, intent, strategies, hyp, states, lists,
          hypotheses, tasks, results, phase, output, forked_hypotheses,
          surviving, eliminated, source_calls, last_call>>

---------------------------------------------------------------------------
(* Bounds of the model *)

MaxIterations == 2
MaxHypotheses == 2
MaxStateOps == 4

---------------------------------------------------------------------------
(* Program constants *)

DefaultConfidenceThreshold == 70
DefaultBudget == 50
DefaultRoutingBudget == 100
DefaultMinConfidence == 30
DefaultMaxCost == 100
DefaultMinEvidence == 2
DefaultMaxContradictions == 5
UNKNOWN == 4
HIGH == 3

Min(a, b) == IF a < b THEN a ELSE b
Max(a, b) == IF a > b THEN a ELSE b
Clamp01(x) == Min(100, Max(0, x))

---------------------------------------------------------------------------
(* The Evidence Source's texts.  A text is known by its set of lower-cased *)
(* words and its length in characters.                                     *)

Contents == {"the sky is blue today", "the sky is not blue today", "essay"}

Words(c) ==
    CASE c = "the sky is blue today" -> {"the", "sky", "is", "blue", "today"}
      [] c = "the sky is not blue today" -> {"the", "sky", "is", "not", "blue", "today"}
      [] c = "essay" -> {"a", "long", "report", "about", "weather"}
      [] c = "essay[:100]" -> {"a", "long", "report"}
      [] OTHER -> {}

ContentLength(c) ==
    CASE c = "the sky is blue today" -> 21
      [] c = "the sky is not blue today" -> 25
      [] c = "essay" -> 600
      [] c = "essay[:100]" -> 100
      [] OTHER -> 0

\* content[:100]
Prefix100(c) == IF ContentLength(c) > 100 THEN "essay[:100]" ELSE c

ReputableSources == {"wiki.org", "nasa.gov"}

\* The results search_parallel([query]) can hand back for its one query.
ResultPool ==
    { [success |-> TRUE, content |-> "the sky is blue today", source |-> "wiki.org",
       verified |-> FALSE, score |-> 90],
      [success |-> TRUE, content |-> "the sky is not blue today", source |-> "blog.com",
       verified |-> FALSE, score |-> 10],
      [success |-> TRUE, content |-> "essay", source |-> "nasa.gov",
       verified |-> TRUE, score |-> 50],
      [success |-> FALSE, content |-> "", source |-> "unknown",
       verified |-> FALSE, score |-> 0] }

\* An outcome of one Evidence Source call: it raises, or returns at most one
\* result (search_parallel creates one task per query and drops failed ones).
Outcomes ==
    { [raises |-> TRUE, results |-> <<>>], [raises |-> FALSE, results |-> <<>>] }
    \cup { [raises |-> FALSE, results |-> <<r>>] : r \in ResultPool }

---------------------------------------------------------------------------
(* CognitiveState *)

Heap == [hyp |-> hyp, states |-> states, lists |-> lists]

EnumLevel(v) == [enum |-> TRUE, value |-> v]
FloatLevel(v) == [enum |-> FALSE, value |-> v]

NewState(uncertainty) ==
    [knowledge |-> <<>>, uncertainty |-> uncertainty, contradictions |-> <<>>,
     confidence |-> 0, sources_accessed |-> {}]

HasTopic(know, topic) == \E i \in DOMAIN know : know[i].topic = topic
TopicList(know, topic) == know[CHOOSE i \in DOMAIN know : know[i].topic = topic].list

RECURSIVE SumConfidence(_)
SumConfidence(evs) ==
    IF evs = <<>> THEN 0 ELSE Head(evs).confidence + SumConfidence(Tail(evs))

\* every evidence item of a state, dictionary order then list order
RECURSIVE AllEvidence(_, _)
AllEvidence(ls, know) ==
    IF know = <<>> THEN <<>>
    ELSE ls[Head(know).list] \o AllEvidence(ls, Tail(know))

UpdateConfidence(H, sid) ==
    LET st == H.states[sid]
        all == AllEvidence(H.lists, st.knowledge)
        n == Len(st.contradictions)
        mean == IF Len(all) > 0 THEN SumConfidence(all) \div Len(all) ELSE st.confidence
    IN  IF st.knowledge = <<>> THEN 0
        ELSE IF n > 0 THEN (mean * (100 - Min(30, n * 5))) \div 100
        ELSE mean

\* add_evidence putting the new item in front of the topic's list
AddEvidenceInFront(H, sid, topic, ev) ==
    LET st == H.states[sid]
        fresh == ~HasTopic(st.knowledge, topic)
        lid == IF fresh THEN Len(H.lists) + 1 ELSE TopicList(st.knowledge, topic)
        ls == IF fresh THEN Append(H.lists, <<ev>>)
              ELSE [H.lists EXCEPT ![lid] = <<ev>> \o @]
        know == IF fresh THEN Append(st.knowledge, [topic |-> topic, list |-> lid])
                ELSE st.knowledge
        H1 == [H EXCEPT !.lists = ls,
                        !.states[sid].knowledge = know,
                        !.states[sid].sources_accessed = @ \cup {ev.source}]
    IN  [H1 EXCEPT !.states[sid].confidence = UpdateConfidence(H1, sid)]

AddEvidence(H, sid, topic, ev) ==
    LET st == H.states[sid]
        fresh == ~HasTopic(st.knowledge, topic)
        lid == IF fresh THEN Len(H.lists) + 1 ELSE TopicList(st.knowledge, topic)
        ls == IF fresh THEN Append(H.lists, <<ev>>)
              ELSE [H.lists EXCEPT ![lid] = Append(@, ev)]
        know == IF fresh THEN Append(st.knowledge, [topic |-> topic, list |-> lid])
                ELSE st.knowledge
        H1 == [H EXCEPT !.lists = ls,
                        !.states[sid].knowledge = know,
                        !.states[sid].sources_accessed = @ \cup {ev.source}]
    IN  [H1 EXCEPT !.states[sid].confidence = UpdateConfidence(H1, sid)]

NegationWords == {"not", "no", "never", "neither", "none", "nobody"}

\* the heuristic without the test of the shared words
IsContradictoryAnyWords(ev1, ev2) ==
    LET has_neg1 == (Words(ev1.content) \cap NegationWords) # {}
        has_neg2 == (Words(ev2.content) \cap NegationWords) # {}
    IN  has_neg1 # has_neg2

IsContradictory(ev1, ev2) ==
    LET words1 == Words(ev1.content)
        words2 == Words(ev2.content)
        has_neg1 == (words1 \cap NegationWords) # {}
        has_neg2 == (words2 \cap NegationWords) # {}
    IN  has_neg1 # has_neg2 /\ Cardinality(words1 \cap words2) > 3

Abs(x) == IF x < 0 THEN -x ELSE x

MakeContradiction(ev1, ev2) ==
    [claim_a |-> Prefix100(ev1.content), claim_b |-> Prefix100(ev2.content),
     source_a |-> ev1.source, source_b |-> ev2.source,
     severity |-> Abs(ev1.confidence - ev2.confidence)]

\* the contradictions of the pairs (i, j), j > i, of evs, from pair (i, j) on
RECURSIVE PairContradictions(_, _, _)
PairContradictions(evs, i, j) ==
    IF i >= Len(evs) THEN <<>>
    ELSE IF j > Len(evs) THEN PairContradictions(evs, i + 1, i + 2)
    ELSE (IF IsContradictory(evs[i], evs[j])
          THEN <<MakeContradiction(evs[i], evs[j])>> ELSE <<>>)
         \o PairContradictions(evs, i, j + 1)

\* returns the heap after the call and the list the call returns
DetectContradictions(H, sid, topic) ==
    LET st == H.states[sid] IN
    IF ~HasTopic(st.knowledge, topic) THEN [H |-> H, new |-> <<>>]
    ELSE LET new == PairContradictions(H.lists[TopicList(st.knowledge, topic)], 1, 2)
         IN  [H |-> [H EXCEPT !.states[sid].contradictions = @ \o new], new |-> new]

\* returns the heap with the new state allocated last
Fork(H, sid) ==
    LET st == H.states[sid] IN
    [H EXCEPT !.states = Append(@,
        [knowledge |-> st.knowledge,
         uncertainty |-> st.uncertainty,
         contradictions |-> st.contradictions,
         confidence |-> st.confidence,
         sources_accessed |-> st.sources_accessed])]

---------------------------------------------------------------------------
(* Source strategies and the hypothesis generator *)

Strategy(source_type, cost, prefix) ==
    [source_type |-> source_type, cost |-> cost,
     query_template |-> IF prefix = "" THEN "goal" ELSE prefix \o " goal"]

Encyclopedic == Strategy("encyclopedic", 10, "")
Academic == Strategy("academic_papers", 50, "scholarly")
FormalDocs == Strategy("formal_documentation", 20, "documentation")
QaSites == Strategy("qa_sites", 15, "how to")
Forums == Strategy("community_forums", 10, "discussion")
LiveData == Strategy("live_system_data", 30, "current")
News == Strategy("news_sources", 15, "latest")
Social == Strategy("social_signals", 10, "opinion")
\* a Hypothesis built by a caller without a source strategy (source_strategy=None)
NoStrategy ==
    [source_type |-> "None", cost |-> 0, query_template |-> ""]

\* _select_candidate_types and _create_strategy: the candidate types of the
\* decision type, in the order the code lists them, one strategy each
CandidateStrategies(int) ==
    IF int.decision_type = "factual" THEN <<Encyclopedic, FormalDocs, Academic>>
    ELSE IF int.decision_type = "comparative" THEN <<Encyclopedic, QaSites, Forums, Academic>>
    ELSE IF int.decision_type = "predictive" THEN <<LiveData, News, Social, Academic>>
    ELSE <<>>

\* compute_score of a strategy of _create_strategy after _estimate_expected_value,
\* in millionths, rounded down.  Trust, freshness and alignment in hundredths,
\* the priority in two-hundredths, the cost c in tenths.
ComputeScore(int, strategy) ==
    LET st == strategy.source_type
        c == strategy.cost
        trust == CASE st = "formal_documentation" -> 90 [] st = "academic_papers" -> 95
                   [] st = "community_forums" -> 50 [] st = "live_system_data" -> 85
                   [] st = "social_signals" -> 30 [] st = "news_sources" -> 60
                   [] st = "encyclopedic" -> 80 [] st = "qa_sites" -> 65 [] OTHER -> 0
        freshness == CASE st = "formal_documentation" -> 60 [] st = "academic_papers" -> 40
                       [] st = "community_forums" -> 80 [] st = "live_system_data" -> 100
                       [] st = "social_signals" -> 95 [] st = "news_sources" -> 90
                       [] st = "encyclopedic" -> 50 [] st = "qa_sites" -> 70 [] OTHER -> 0
        alignment == CASE int.decision_type = "factual" /\ st = "encyclopedic" -> 90
                       [] int.decision_type = "factual" /\ st = "academic_papers" -> 85
                       [] int.decision_type = "factual" /\ st = "formal_documentation" -> 80
                       [] int.decision_type = "factual" /\ st = "qa_sites" -> 60
                       [] int.decision_type = "predictive" /\ st = "live_system_data" -> 90
                       [] int.decision_type = "predictive" /\ st = "news_sources" -> 80
                       [] int.decision_type = "predictive" /\ st = "academic_papers" -> 70
                       [] int.decision_type = "predictive" /\ st = "social_signals" -> 50
                       [] OTHER -> 50
        priority == IF int.uncertainty > 70 THEN 2 * trust
                    ELSE IF int.uncertainty < 30 THEN 2 * freshness
                    ELSE trust + freshness
        \* expected_value times 1000 (c + 1)
        expected_value == Min(1000 * (c + 1),
                              5 * alignment * (c + 1) + 30 * Min(10 * (c + 1), trust)
                                + 200 * (c + 1))
        \* the score times 10000 (c + 1)
        num == 40 * trust * (c + 1) + 3 * expected_value + 10 * priority * (c + 1)
               + (1000 - 10 * Min(100, c)) * (c + 1)
    IN  (100 * num) \div (c + 1)

\* sorted(items, key, reverse=True) on records [key, val]: stable
RECURSIVE InsertDesc(_, _)
InsertDesc(sorted, x) ==
    IF sorted = <<>> THEN <<x>>
    ELSE IF Head(sorted).key < x.key THEN <<x>> \o sorted
    ELSE <<Head(sorted)>> \o InsertDesc(Tail(sorted), x)

RECURSIVE SortDescFrom(_, _, _)
SortDescFrom(items, i, sorted) ==
    IF i > Len(items) THEN sorted
    ELSE SortDescFrom(items, i + 1, InsertDesc(sorted, items[i]))

SortDesc(items) == SortDescFrom(items, 1, <<>>)

Values(items) == [i \in DOMAIN items |-> items[i].val]

\* steps 1 to 3 of route: the candidates sorted by compute_score, best first
RankedStrategies(int) ==
    LET candidates == CandidateStrategies(int)
    IN  Values(SortDesc([i \in DOMAIN candidates |->
                           [key |-> ComputeScore(int, candidates[i]), val |-> candidates[i]]]))

\* step 4 of route: in rank order, stop at max_strategies, skip what the
\* remaining budget does not pay for
\* a selection that stops at the first strategy the budget does not pay for
RECURSIVE SelectWithinStopping(_, _, _, _, _)
SelectWithinStopping(ranked, selected, total_cost, max_strategies, budget) ==
    IF ranked = <<>> \/ Len(selected) >= max_strategies THEN selected
    ELSE IF total_cost + Head(ranked).cost > budget THEN selected
    ELSE SelectWithinStopping(Tail(ranked), Append(selected, Head(ranked)),
                              total_cost + Head(ranked).cost, max_strategies, budget)

RECURSIVE SelectWithin(_, _, _, _, _)
SelectWithin(ranked, selected, total_cost, max_strategies, budget) ==
    IF ranked = <<>> \/ Len(selected) >= max_strategies THEN selected
    ELSE IF total_cost + Head(ranked).cost > budget THEN
        SelectWithin(Tail(ranked), selected, total_cost, max_strategies, budget)
    ELSE SelectWithin(Tail(ranked), Append(selected, Head(ranked)),
                      total_cost + Head(ranked).cost, max_strategies, budget)

Route(int, max_strategies, budget) ==
    SelectWithin(RankedStrategies(int), <<>>, 0, max_strategies, budget)

Intents ==
    { [decision_type |-> "factual", uncertainty |-> 20],
      [decision_type |-> "comparative", uncertainty |-> 30],
      [decision_type |-> "predictive", uncertainty |-> 80],
      [decision_type |-> "social", uncertainty |-> 50] }

Take(s, n) == SubSeq(s, 1, Min(Len(s), Max(n, 0)))

CreateHypothesisFromStrategy(int, strategy, index) ==
    [description |-> <<"Hypothesis", ToString(index + 1), strategy.source_type>>,
     assumptions |-> <<"reliable", "trust", "freshness">>,
     source_strategy |-> strategy,
     uncertainty |-> FloatLevel(int.uncertainty)]

PlainHypothesis(description, assumptions, strategy) ==
    [description |-> description, assumptions |-> assumptions,
     source_strategy |-> strategy, uncertainty |-> EnumLevel(UNKNOWN)]

GenerateDecisionTypeHypotheses(int, strats) ==
    IF int.decision_type = "comparative" /\ strats # <<>> THEN
        << PlainHypothesis(<<"Hypothesis: First option is superior">>,
                           <<"first outweighs second">>, strats[1]),
           PlainHypothesis(<<"Hypothesis: Second option is superior">>,
                           <<"second outweighs first">>, strats[1]) >>
    ELSE IF int.decision_type = "predictive" /\ strats # <<>> THEN
        << PlainHypothesis(<<"Hypothesis: Positive outcome scenario">>,
                           <<"optimistic">>, strats[1]),
           PlainHypothesis(<<"Hypothesis: Negative outcome scenario">>,
                           <<"pessimistic">>, strats[1]) >>
    ELSE <<>>

GenerateContrarianHypotheses(int, strats) ==
    IF strats # <<>> THEN
        << PlainHypothesis(<<"Contrarian: Opposite view">>,
                           <<"conventional wisdom is wrong", "contradictory evidence">>,
                           strats[1]) >>
    ELSE <<>>

\* a generate that takes every strategy, whatever the limit
GenerateListNoLimit(int, strats, max_hypotheses) ==
    LET h1 == [i \in 1..Len(strats) |-> CreateHypothesisFromStrategy(int, strats[i], i - 1)]
    IN  IF Len(h1) < max_hypotheses
        THEN h1 \o Take(GenerateDecisionTypeHypotheses(int, strats),
                        max_hypotheses - Len(h1))
        ELSE h1

\* the hypotheses generate() builds, before their states are allocated
GenerateList(int, strats, max_hypotheses) ==
    LET per == Take(strats, max_hypotheses)
        h1 == [i \in 1..Len(per) |-> CreateHypothesisFromStrategy(int, per[i], i - 1)]
        h2 == IF Len(h1) < max_hypotheses
              THEN h1 \o Take(GenerateDecisionTypeHypotheses(int, strats),
                              max_hypotheses - Len(h1))
              ELSE h1
        h3 == IF int.uncertainty > 70 /\ Len(h2) < max_hypotheses
              THEN h2 \o Take(GenerateContrarianHypotheses(int, strats),
                              max_hypotheses - Len(h2))
              ELSE h2
    IN  h3

\* Every hypothesis of the list gets a Hypothesis object and a CognitiveState
\* of its own, allocated after what the heap already holds.
AllocateAllShared(H, protos) ==
    LET nh == Len(H.hyp)
        ns == Len(H.states)
    IN  [H EXCEPT
          !.hyp = @ \o [i \in 1..Len(protos) |->
                    [id |-> nh + i,
                     description |-> protos[i].description,
                     assumptions |-> protos[i].assumptions,
                     source_strategy |-> protos[i].source_strategy,
                     state |-> ns + 1,
                     confidence |-> 0, cost |-> 0,
                     eliminated |-> FALSE, elimination_reason |-> ""]],
          !.states = @ \o [i \in 1..Len(protos) |-> NewState(protos[i].uncertainty)]]

Allocate(H, protos) ==
    LET nh == Len(H.hyp)
        ns == Len(H.states)
    IN  [H EXCEPT
          !.hyp = @ \o [i \in 1..Len(protos) |->
                    [id |-> nh + i,
                     description |-> protos[i].description,
                     assumptions |-> protos[i].assumptions,
                     source_strategy |-> protos[i].source_strategy,
                     state |-> ns + i,
                     confidence |-> 0, cost |-> 0,
                     eliminated |-> FALSE, elimination_reason |-> ""]],
          !.states = @ \o [i \in 1..Len(protos) |-> NewState(protos[i].uncertainty)]]

Generate(H, int, strats, max_hypotheses) ==
    Allocate(H, GenerateList(int, strats, max_hypotheses))

ForkHypothesisSharingState(H, h) ==
    LET o == H.hyp[h] IN
    [H EXCEPT !.hyp = Append(@,
        [id |-> Len(H.hyp) + 1,
         description |-> <<"Forked from: ">> \o o.description,
         assumptions |-> o.assumptions,
         source_strategy |-> o.source_strategy,
         state |-> o.state,
         confidence |-> o.confidence, cost |-> o.cost,
         eliminated |-> FALSE, elimination_reason |-> ""])]

\* returns the heap with the fork allocated last
ForkHypothesis(H, h) ==
    LET o == H.hyp[h]
        H1 == Fork(H, o.state)
    IN  [H1 EXCEPT !.hyp = Append(@,
            [id |-> Len(H.hyp) + 1,
             description |-> <<"Forked from: ">> \o o.description,
             assumptions |-> o.assumptions,
             source_strategy |-> o.source_strategy,
             state |-> Len(H1.states),
             confidence |-> o.confidence, cost |-> o.cost,
             eliminated |-> FALSE, elimination_reason |-> ""])]

---------------------------------------------------------------------------
(* InterrogationLoop *)

\* _estimate_evidence_confidence
EstimateEvidenceConfidence(result) ==
    LET base == 50
        c1 == IF result.source \in ReputableSources THEN base + 20 ELSE base
        c2 == IF ContentLength(result.content) > 500 THEN c1 + 10
              ELSE IF ContentLength(result.content) < 100 THEN c1 - 10
              ELSE c1
        c3 == IF result.verified THEN c2 + 10 ELSE c2
    IN  Clamp01(c3)

\* a replacement of the heuristic: the Evidence Source's own score of the result
InjectedEvidenceConfidence(result) == Clamp01(result.score)

EvidenceConfidence(est, result) ==
    IF est = "builtin" THEN EstimateEvidenceConfidence(result)
    ELSE InjectedEvidenceConfidence(result)

\* _query_network, after search_parallel has returned `res`
RECURSIVE QueryNetwork(_, _)
QueryNetwork(est, res) ==
    IF res = <<>> THEN <<>>
    ELSE IF ~Head(res).success THEN QueryNetwork(est, Tail(res))
    ELSE << [content |-> Head(res).content, source |-> Head(res).source,
             confidence |-> EvidenceConfidence(est, Head(res))] >>
         \o QueryNetwork(est, Tail(res))

RecomputeConfidence(H, sid) ==
    LET st == H.states[sid]
        all == AllEvidence(H.lists, st.knowledge)
    IN  IF st.knowledge = <<>> \/ all = <<>> THEN 0
        ELSE Clamp01((SumConfidence(all) \div Len(all))
                     + Min(20, Cardinality(st.sources_accessed) * 4)
                     - Min(30, Len(st.contradictions) * 5))

\* The next query, as [raised, query]: query <<>> is None, raised is the
\* AttributeError of reading query_template from a missing strategy.
SelectNextQuery(H, h) ==
    LET o == H.hyp[h]
        st == H.states[o.state]
        template == [raised |-> o.source_strategy.source_type = "None",
                     query |-> <<o.source_strategy.query_template>>]
    IN  IF st.knowledge = <<>> THEN
            (IF ~template.raised /\ o.source_strategy.query_template = ""
             THEN [raised |-> FALSE, query |-> <<>>] ELSE template)
        ELSE IF st.uncertainty = EnumLevel(HIGH) THEN
            [template EXCEPT !.query = <<"alternative view">> \o @]
        ELSE IF st.contradictions # <<>> THEN
            [raised |-> FALSE,
             query |-> <<"clarify", st.contradictions[Len(st.contradictions)].claim_a>>]
        ELSE IF st.confidence < 50 THEN
            [template EXCEPT !.query = <<"detailed">> \o @]
        ELSE [raised |-> FALSE, query |-> <<>>]

NewTask(h) ==
    [h |-> h, pc |-> "created", iteration |-> 0, total_cost |-> 0,
     converged |-> FALSE, convergence_reason |-> "", query |-> <<>>,
     final_confidence |-> 0, attempts |-> 0, hist |-> <<>>]

\* leaving the while loop: the InterrogationResult is built from the locals
\* and from hypothesis.confidence as it is now
Stop(t, converged, reason, confidence) ==
    [t EXCEPT !.pc = "returned", !.converged = converged,
              !.convergence_reason = reason, !.final_confidence = confidence]

\* the stop criteria in another order: iteration limit, budget, confidence
StopCheckIterationFirst(cfg, confidence, iteration, total_cost) ==
    IF iteration > cfg.max_iterations THEN "max_iterations_exceeded"
    ELSE IF total_cost >= cfg.budget THEN "budget_exceeded"
    ELSE IF confidence >= cfg.confidence_threshold THEN "confidence_threshold_reached"
    ELSE ""

\* the stop criteria without the budget test
StopCheckNoBudget(cfg, confidence, iteration, total_cost) ==
    IF confidence >= cfg.confidence_threshold THEN "confidence_threshold_reached"
    ELSE IF iteration > cfg.max_iterations THEN "max_iterations_exceeded"
    ELSE ""

\* the stop criteria without the iteration limit
StopCheckNoLimit(cfg, confidence, iteration, total_cost) ==
    IF confidence >= cfg.confidence_threshold THEN "confidence_threshold_reached"
    ELSE IF total_cost >= cfg.budget THEN "budget_exceeded"
    ELSE ""

\* the stop criteria with an iteration limit that lets one more iteration run
StopCheckOneMore(cfg, confidence, iteration, total_cost) ==
    IF confidence >= cfg.confidence_threshold THEN "confidence_threshold_reached"
    ELSE IF iteration > cfg.max_iterations + 1 THEN "max_iterations_exceeded"
    ELSE IF total_cost >= cfg.budget THEN "budget_exceeded"
    ELSE ""

\* the stop criteria with a budget test that lets a spent budget pass
StopCheckBudgetStrict(cfg, confidence, iteration, total_cost) ==
    IF confidence >= cfg.confidence_threshold THEN "confidence_threshold_reached"
    ELSE IF iteration > cfg.max_iterations THEN "max_iterations_exceeded"
    ELSE IF total_cost > cfg.budget THEN "budget_exceeded"
    ELSE ""

\* the stop criteria at the top of an iteration: the reason to stop, or ""
StopCheck(cfg, confidence, iteration, total_cost) ==
    IF confidence >= cfg.confidence_threshold THEN "confidence_threshold_reached"
    ELSE IF iteration > cfg.max_iterations THEN "max_iterations_exceeded"
    ELSE IF total_cost >= cfg.budget THEN "budget_exceeded"
    ELSE ""

\* From the top of the while loop to the next suspension (the await of the
\* Evidence Source call), to the return, or to an exception leaving run().
RECURSIVE LoopTop(_, _, _)
LoopTop(H, cfg, t) ==
    LET t1 == [t EXCEPT !.iteration = @ + 1]
        o == H.hyp[t.h]
        stop == StopCheck(cfg, H.states[o.state].confidence, t1.iteration, t1.total_cost)
        next == SelectNextQuery(H, t.h)
    IN  IF stop # "" THEN Stop(t1, stop = "confidence_threshold_reached", stop, o.confidence)
        ELSE IF next.raised THEN [t1 EXCEPT !.pc = "raised"]
        ELSE IF next.query = <<>> THEN Stop(t1, FALSE, "no_more_queries", o.confidence)
        ELSE IF o.source_strategy.source_type = "None"
             \* reading source_type raises inside the try: except, continue
             THEN LoopTop(H, cfg, t1)
        ELSE [t1 EXCEPT !.pc = "awaiting", !.query = next.query]

RECURSIVE AddAllEvidence(_, _, _, _)
AddAllEvidence(H, sid, topic, evs) ==
    IF evs = <<>> THEN H
    ELSE AddAllEvidence(AddEvidence(H, sid, topic, Head(evs)), sid, topic, Tail(evs))

\* the one element of a singleton set
Only(S) == CHOOSE x \in S : TRUE

\* `if contradictions: hypothesis.state.contradictions.extend(contradictions)`
ExtendContradictions(D, sid) ==
    IF D.new # <<>>
    THEN [D.H EXCEPT !.states[sid].contradictions = @ \o D.new]
    ELSE D.H

\* The try block after the Evidence Source call has returned `outcome`:
\* the heap and the task's total_cost after it.  The heaps H1 .. H4 are the
\* heap after each statement of the block, in order.
LoopBody(H, est, t, outcome) ==
    IF outcome.raises THEN [H |-> H, t |-> t]
    ELSE
      LET o == H.hyp[t.h]
          evidence_list == QueryNetwork(est, outcome.results)
          total == t.total_cost + o.source_strategy.cost
      IN  Only({ [H |-> H4, t |-> [t EXCEPT !.total_cost = total]] :
            H4 \in { ExtendContradictions(D, o.state) :
            D \in { DetectContradictions(H3, o.state, o.description) :
            H3 \in { [H2 EXCEPT !.hyp[t.h].confidence = RecomputeConfidence(H2, o.state)] :
            H2 \in { AddAllEvidence(H1, o.state, o.description, evidence_list) :
            H1 \in { [H EXCEPT !.hyp[t.h].cost = total] } } } } } })

\* the coroutine from the return of its Evidence Source call to its next
\* suspension or its end
LoopResume(H, cfg, est, t, outcome) ==
    Only({ [H |-> B.H, t |-> LoopTop(B.H, cfg, B.t)] :
           B \in { LoopBody(H, est,
                            [t EXCEPT !.attempts = @ + 1, !.hist = Append(@, outcome)],
                            outcome) } })

\* InterrogationResult of a returned task
ResultOf(t) ==
    [hypothesis |-> t.h, iterations |-> t.iteration, total_cost |-> t.total_cost,
     final_confidence |-> t.final_confidence, converged |-> t.converged,
     convergence_reason |-> t.convergence_reason]

---------------------------------------------------------------------------
(* ParallelInterrogationEngine *)

Done(t) == t.pc \in {"returned", "raised"}

\* the coroutines run_parallel creates: one per hypothesis not eliminated
RECURSIVE StartTasks(_, _)
StartTasks(H, hs) ==
    IF hs = <<>> THEN <<>>
    ELSE (IF H.hyp[Head(hs)].eliminated THEN <<>> ELSE <<NewTask(Head(hs))>>)
         \o StartTasks(H, Tail(hs))

\* gather without return_exceptions: one failing loop fails the batch
RECURSIVE ValidResultsFailFast(_)
ValidResultsFailFast(ts) ==
    IF ts = <<>> THEN <<>>
    ELSE IF Head(ts).pc = "raised" THEN <<>>
    ELSE <<ResultOf(Head(ts))>> \o ValidResultsFailFast(Tail(ts))

\* the results gather hands back, in task order, without the exceptions
RECURSIVE ValidResults(_)
ValidResults(ts) ==
    IF ts = <<>> THEN <<>>
    ELSE (IF Head(ts).pc = "raised" THEN <<>> ELSE <<ResultOf(Head(ts))>>)
         \o ValidResults(Tail(ts))

\* _should_fork with the severity bar at 0.1
ShouldForkLowBar(H, h) ==
    LET o == H.hyp[h]
        cs == H.states[o.state].contradictions
    IN  /\ cs # <<>>
        /\ cs[Len(cs)].severity > 10
        /\ 30 < o.confidence
        /\ o.confidence < 70

ShouldFork(H, h) ==
    LET o == H.hyp[h]
        cs == H.states[o.state].contradictions
    IN  /\ cs # <<>>
        /\ cs[Len(cs)].severity > 60
        /\ 30 < o.confidence
        /\ o.confidence < 70

---------------------------------------------------------------------------
(* HypothesisEliminator *)

DefaultCriteria ==
    [min_confidence |-> DefaultMinConfidence, max_cost |-> DefaultMaxCost,
     min_evidence |-> DefaultMinEvidence,
     max_contradictions |-> DefaultMaxContradictions,
     convergence_required |-> FALSE]

Verdict(raised, eliminate, reason) ==
    [raised |-> raised, eliminate |-> eliminate, reason |-> reason]

\* `paired` is <<results[i]>>, or <<>> for None
ShouldEliminate(H, criteria, h, paired) ==
    LET o == H.hyp[h]
        st == H.states[o.state]
        total_evidence == Len(AllEvidence(H.lists, st.knowledge))
    IN  IF o.confidence < criteria.min_confidence THEN
            Verdict(FALSE, TRUE, "Low confidence")
        ELSE IF o.cost > criteria.max_cost THEN
            Verdict(FALSE, TRUE, "Cost too high")
        ELSE IF total_evidence < criteria.min_evidence THEN
            Verdict(FALSE, TRUE, "Insufficient evidence")
        ELSE IF Len(st.contradictions) > criteria.max_contradictions THEN
            Verdict(FALSE, TRUE, "Too many contradictions")
        ELSE IF criteria.convergence_required /\ paired # <<>> /\ ~paired[1].converged THEN
            Verdict(FALSE, TRUE, "Did not converge")
        ELSE IF ~st.uncertainty.enum THEN
            \* state.uncertainty is a float: reading .value raises AttributeError
            Verdict(TRUE, FALSE, "")
        ELSE IF st.uncertainty.value >= UNKNOWN /\ o.confidence < 50 THEN
            Verdict(FALSE, TRUE, "High uncertainty with low confidence")
        ELSE Verdict(FALSE, FALSE, "")

\* eliminate_weak from hypothesis i on; acc is the heap, the two lists built
\* so far and whether an exception has left the function
RECURSIVE EliminateFrom(_, _, _, _, _)
EliminateFrom(acc, criteria, hs, res, i) ==
    IF i > Len(hs) THEN acc
    ELSE
      LET h == hs[i]
          v == ShouldEliminate(acc.H, criteria, h,
                               IF i <= Len(res) THEN <<res[i]>> ELSE <<>>)
      IN  IF acc.H.hyp[h].eliminated THEN
              EliminateFrom([acc EXCEPT !.eliminated = Append(@, h)], criteria, hs, res, i + 1)
          ELSE IF v.raised THEN [acc EXCEPT !.raised = TRUE]
          ELSE IF v.eliminate THEN
              EliminateFrom([acc EXCEPT !.H.hyp[h].eliminated = TRUE,
                                        !.H.hyp[h].elimination_reason = v.reason,
                                        !.eliminated = Append(@, h)],
                            criteria, hs, res, i + 1)
          ELSE EliminateFrom([acc EXCEPT !.surviving = Append(@, h)], criteria, hs, res, i + 1)

\* an eliminate_weak that passes over the hypotheses already eliminated
EliminateWeakSkipping(H, criteria, hs, res) ==
    EliminateFrom([H |-> H, surviving |-> <<>>, eliminated |-> <<>>, raised |-> FALSE],
                  criteria, SelectSeq(hs, LAMBDA h : ~H.hyp[h].eliminated), res, 1)

EliminateWeak(H, criteria, hs, res) ==
    EliminateFrom([H |-> H, surviving |-> <<>>, eliminated |-> <<>>, raised |-> FALSE],
                  criteria, hs, res, 1)

---------------------------------------------------------------------------
(* StateSynthesizer, as far as execute's result reports it *)

EvidenceCount(H, h) == Len(AllEvidence(H.lists, H.states[H.hyp[h].state].knowledge))

RECURSIVE CostProduct(_, _)
CostProduct(H, hs) ==
    IF hs = <<>> THEN 1 ELSE (H.hyp[Head(hs)].cost + 10) * CostProduct(H, Tail(hs))

\* sum over hs of confidence^power * weight, weights over the common
\* denominator `prod` of the (cost + 1.0) divisors
RECURSIVE WeightedSum(_, _, _, _)
WeightedSum(H, hs, prod, power) ==
    IF hs = <<>> THEN 0
    ELSE LET o == H.hyp[Head(hs)]
             w == o.confidence * EvidenceCount(H, Head(hs)) * (prod \div (o.cost + 10))
         IN  (IF power = 2 THEN o.confidence * w ELSE w)
             + WeightedSum(H, Tail(hs), prod, power)

AggregateConfidence(H, hs) ==
    LET prod == CostProduct(H, hs)
        total_weight == WeightedSum(H, hs, prod, 1)
    IN  IF hs = <<>> \/ total_weight = 0 THEN 0
        ELSE WeightedSum(H, hs, prod, 2) \div total_weight

Range(s) == {s[i] : i \in DOMAIN s}

\* an interval that starts at zero instead of at the smallest confidence
CalculateConfidenceIntervalFromZero(H, hs) ==
    LET cs == {H.hyp[h].confidence : h \in Range(hs)}
    IN  IF hs = <<>> THEN <<0, 0>>
        ELSE << 0, CHOOSE c \in cs : \A d \in cs : c >= d >>

CalculateConfidenceInterval(H, hs) ==
    LET cs == {H.hyp[h].confidence : h \in Range(hs)}
    IN  IF hs = <<>> THEN <<0, 0>>
        ELSE << CHOOSE c \in cs : \A d \in cs : c <= d,
                CHOOSE c \in cs : \A d \in cs : c >= d >>

\* _aggregate_confidence and _calculate_confidence_interval as Python's floats
\* compute them: every arithmetic result is rounded to the nearest number
\* of `bits` significant bits, ties to even.  Python's float keeps 53 bits,
\* the model keeps 8.  A number is [m, e] and stands for m * 2^e, with
\* 2^(bits-1) <= m < 2^bits; zero is [0, 0].  The result holds the aggregated
\* confidence, the total weight and the interval of the hypotheses hs # <<>>.
ConfidenceInFloats(H, hs) ==
    LET bits == 8
        top == 2 ^ bits
        zero == [m |-> 0, e |-> 0]
        RECURSIVE Round(_, _, _)
        \* the float nearest to (num / den) * 2^e, for num > 0 and den > 0
        Round(num, den, e) ==
            IF num >= den * top THEN Round(num, 2 * den, e + 1)
            ELSE IF 2 * num < den * top THEN Round(2 * num, den, e - 1)
            ELSE LET q == num \div den
                     r == num % den
                     m == IF 2 * r > den \/ (2 * r = den /\ q % 2 = 1) THEN q + 1 ELSE q
                 IN  IF m = top THEN [m |-> top \div 2, e |-> e + 1]
                     ELSE [m |-> m, e |-> e]
        Ratio(num, den) == IF num = 0 THEN zero ELSE Round(num, den, 0)
        Mul(a, b) == IF a.m = 0 \/ b.m = 0 THEN zero ELSE Round(a.m * b.m, 1, a.e + b.e)
        Div(a, b) == IF a.m = 0 THEN zero ELSE Round(a.m, b.m, a.e - b.e)
        Add(a, b) ==
            IF a.m = 0 THEN b
            ELSE IF b.m = 0 THEN a
            ELSE LET big == IF a.e >= b.e THEN a ELSE b
                     small == IF a.e >= b.e THEN b ELSE a
                     d == big.e - small.e
                 IN  IF d > bits + 1 THEN big
                     ELSE Round(big.m * (2 ^ d) + small.m, 1, small.e)
        Leq(a, b) ==
            \/ a.m = 0
            \/ b.m # 0 /\ (a.e < b.e \/ (a.e = b.e /\ a.m <= b.m))
        RECURSIVE Sums(_, _, _)
        \* the for loop from hypothesis i on
        Sums(i, weighted_sum, total_weight) ==
            IF i > Len(hs) THEN [weighted_sum |-> weighted_sum, total_weight |-> total_weight]
            ELSE LET o == H.hyp[hs[i]]
                     confidence == Ratio(o.confidence, 100)
                     weight == Mul(confidence,
                                   Div(Ratio(EvidenceCount(H, hs[i]), 1),
                                       Ratio(o.cost + 10, 10)))
                 IN  Sums(i + 1, Add(weighted_sum, Mul(confidence, weight)),
                          Add(total_weight, weight))
        sums == Sums(1, zero, zero)
        confidences == {Ratio(H.hyp[h].confidence, 100) : h \in Range(hs)}
        aggregated == IF sums.total_weight.m = 0 THEN zero
                      ELSE Div(sums.weighted_sum, sums.total_weight)
        lowest == CHOOSE c \in confidences : \A d \in confidences : Leq(c, d)
        highest == CHOOSE c \in confidences : \A d \in confidences : Leq(d, c)
    IN  [confidence |-> aggregated, total_weight |-> sums.total_weight,
         interval |-> <<lowest, highest>>,
         inside |-> Leq(lowest, aggregated) /\ Leq(aggregated, highest)]

DetermineUncertainty(overall_confidence) ==
    IF overall_confidence >= 80 THEN "CERTAIN"
    ELSE IF overall_confidence >= 60 THEN "LOW"
    ELSE IF overall_confidence >= 40 THEN "MEDIUM"
    ELSE IF overall_confidence >= 20 THEN "HIGH"
    ELSE "UNKNOWN"

Report(kind, decision, confidence, interval, uncertainty, total, nsurv, nelim) ==
    [kind |-> kind, decision |-> decision, confidence |-> confidence,
     confidence_interval |-> interval, uncertainty |-> uncertainty,
     total |-> total, surviving |-> nsurv, eliminated |-> nelim]

NoOutput == Report("none", <<>>, 0, <<0, 0>>, "", 0, 0, 0)
Raised == Report("raised", <<"AttributeError">>, 0, <<0, 0>>, "", 0, 0, 0)

\* the result dictionary execute packs from the SynthesizedState
SynthesizedResult(H, hs, surv, elim) ==
    LET c == AggregateConfidence(H, surv) IN
    Report("result", <<"answer">>, c, CalculateConfidenceInterval(H, surv),
           DetermineUncertainty(c), Len(hs), Len(surv), Len(elim))

---------------------------------------------------------------------------
(* VelocityCore *)

NoNetworkIntents == {"social", "meta", "creative"}

LocalResult == Report("result", <<"local">>, 100, <<100, 100>>, "CERTAIN", 0, 0, 0)

CreateEmptyResult(reason) ==
    Report("result", <<"Unable to process: ", reason>>, 0, <<0, 0>>, "UNKNOWN", 0, 0, 0)

\* the forks of the hypotheses that should fork, allocated in list order:
\* the heap and the list of forks
RECURSIVE ForkFlagged(_, _, _)
ForkFlagged(acc, hs, i) ==
    IF i > Len(hs) THEN acc
    ELSE IF ShouldFork(acc.H, hs[i]) THEN
        LET H1 == ForkHypothesis(acc.H, hs[i])
        IN  ForkFlagged([H |-> H1, forked |-> Append(acc.forked, Len(H1.hyp))], hs, i + 1)
    ELSE ForkFlagged(acc, hs, i + 1)

---------------------------------------------------------------------------
(* The orchestrator: VelocityCore.execute, or a caller of run_parallel *)

Configs ==
    [max_hypotheses : 1..MaxHypotheses,
     confidence_threshold : {DefaultConfidenceThreshold},
     max_iterations : 0..MaxIterations,
     budget : {0, DefaultBudget},
     routing_budget : {0, 10, DefaultRoutingBudget},
     criteria : {DefaultCriteria}]

\* topic and returned: the argument and the return value of the last call
NoCall == [op |-> "", sid |-> 0, n |-> 0, origin |-> <<>>, topic |-> "", returned |-> <<>>]

Init ==
    /\ entry \in {"execute", "run_parallel"}
    /\ config \in Configs
    /\ estimator \in {"builtin", "injected"}
    /\ intent \in Intents
    /\ strategies = <<>>
    /\ hyp = <<>> /\ states = <<>> /\ lists = <<>>
    /\ hypotheses = <<>> /\ forked_hypotheses = <<>>
    /\ tasks = <<>> /\ results = <<>>
    /\ surviving = <<>> /\ eliminated = <<>>
    /\ phase = "idle"
    /\ output = NoOutput
    /\ source_calls = 0
    /\ last_call = NoCall

SetHeap(H) == hyp' = H.hyp /\ states' = H.states /\ lists' = H.lists

Ids(n) == [i \in 1..n |-> i]

NoStrategiesNever(strats) == FALSE

\* `if not strategies`
NoStrategies(strats) == strats = <<>>

\* steps 6 and 7 of execute and its return, on the hypotheses hs and results res
Finish(H, hs, res) ==
    LET E == EliminateWeak(H, config.criteria, hs, res) IN
    /\ SetHeap(E.H)
    /\ IF E.raised THEN
           /\ phase' = "raised"
           /\ output' = Raised
           /\ UNCHANGED <<surviving, eliminated>>
       ELSE
           /\ phase' = "returned"
           /\ surviving' = E.surviving
           /\ eliminated' = E.eliminated
           /\ output' = IF E.surviving = <<>> THEN CreateEmptyResult("all_eliminated")
                        ELSE SynthesizedResult(E.H, hs, E.surviving, E.eliminated)

\* execute up to its first await: the gate, route, generate, and the
\* coroutines of the first run_parallel
ExecuteCall ==
    /\ entry = "execute" /\ phase = "idle"
    /\ IF intent.decision_type \in NoNetworkIntents THEN
           /\ output' = LocalResult /\ phase' = "returned"
           /\ UNCHANGED <<strategies, hyp, states, lists, hypotheses, tasks>>
       ELSE
           LET strats == Route(intent, config.max_hypotheses, config.routing_budget) IN
           /\ strategies' = strats
           /\ IF NoStrategies(strats) THEN
                  /\ output' = CreateEmptyResult("no_strategies") /\ phase' = "returned"
                  /\ UNCHANGED <<hyp, states, lists, hypotheses, tasks>>
              ELSE
                  LET G == Generate(Heap, intent, strats, config.max_hypotheses) IN
                  /\ SetHeap(G)
                  /\ hypotheses' = Ids(Len(G.hyp))
                  /\ tasks' = StartTasks(G, Ids(Len(G.hyp)))
                  /\ phase' = "first_pass"
                  /\ UNCHANGED output
    /\ UNCHANGED <<entry, config, estimator, intent, results,
                   forked_hypotheses, surviving, eliminated, source_calls, last_call>>

\* A caller hands run_parallel the hypotheses of generate, some of them
\* already eliminated, some built without a source strategy.
RunParallelCall(elim, bad) ==
    /\ entry = "run_parallel" /\ phase = "idle"
    /\ LET strats == Route(intent, config.max_hypotheses, config.routing_budget)
           G == Generate(Heap, intent, strats, config.max_hypotheses)
           H1 == [G EXCEPT !.hyp = [i \in DOMAIN G.hyp |->
                    [G.hyp[i] EXCEPT
                       !.eliminated = (i \in elim),
                       !.elimination_reason = IF i \in elim THEN "Low confidence" ELSE "",
                       !.source_strategy = IF i \in bad THEN NoStrategy ELSE @]]]
       IN  /\ elim \subseteq DOMAIN G.hyp /\ bad \subseteq DOMAIN G.hyp
           /\ strategies' = strats
           /\ SetHeap(H1)
           /\ hypotheses' = Ids(Len(G.hyp))
           /\ tasks' = StartTasks(H1, Ids(Len(G.hyp)))
    /\ phase' = "rp_running"
    /\ UNCHANGED <<entry, config, estimator, intent, results, output,
                   forked_hypotheses, surviving, eliminated, source_calls, last_call>>

Running == phase \in {"first_pass", "fork_pass", "rp_running", "run"}

Issued(t) == IF t.pc = "awaiting" THEN 1 ELSE 0

\* a coroutine runs from its creation to its first suspension or its end
LoopStart(i) ==
    /\ Running
    /\ i \in DOMAIN tasks /\ tasks[i].pc = "created"
    /\ \E t \in {LoopTop(Heap, config, tasks[i])} :
       /\ tasks' = [tasks EXCEPT ![i] = t]
       /\ source_calls' = source_calls + Issued(t)
    /\ UNCHANGED <<entry, config, estimator, intent, strategies, hyp, states, lists,
                   hypotheses, results, phase, output, forked_hypotheses,
                   surviving, eliminated, last_call>>

\* the Evidence Source call of coroutine i returns `outcome`; the coroutine
\* runs on to its next suspension or its end
QueryReturns(i, outcome) ==
    /\ Running
    /\ i \in DOMAIN tasks /\ tasks[i].pc = "awaiting"
    /\ tasks[i].attempts < MaxIterations
    /\ \E R \in {LoopResume(Heap, config, estimator, tasks[i], outcome)} :
       /\ SetHeap(R.H)
       /\ tasks' = [tasks EXCEPT ![i] = R.t]
       /\ source_calls' = source_calls + Issued(R.t)
    /\ UNCHANGED <<entry, config, estimator, intent, strategies, hypotheses, results,
                   phase, output, forked_hypotheses, surviving, eliminated, last_call>>

\* a wait that ends with the first loop to finish
AnyDone == \E i \in DOMAIN tasks : Done(tasks[i])

\* gather: every coroutine of the batch has ended
AllDone == \A i \in DOMAIN tasks : Done(tasks[i])

\* gather returns to run_parallel, which returns to its caller
RunParallelReturns ==
    /\ phase = "rp_running" /\ AllDone
    /\ results' = ValidResults(tasks)
    /\ phase' = "rp_returned"
    /\ UNCHANGED <<entry, config, estimator, intent, strategies, hyp, states, lists,
                   hypotheses, tasks, output, forked_hypotheses, surviving,
                   eliminated, source_calls, last_call>>

\* the first run_parallel returns to execute: step 5, and either the second
\* run_parallel is awaited or execute runs to its end
FirstPassJoins ==
    /\ phase = "first_pass" /\ AllDone
    /\ LET res == ValidResults(tasks)
           F == ForkFlagged([H |-> Heap, forked |-> <<>>], hypotheses, 1)
       IN  /\ results' = res
           /\ forked_hypotheses' = F.forked
           /\ IF F.forked # <<>> THEN
                  /\ SetHeap(F.H)
                  /\ tasks' = tasks \o StartTasks(F.H, F.forked)
                  /\ phase' = "fork_pass"
                  /\ UNCHANGED <<output, surviving, eliminated>>
              ELSE
                  /\ Finish(Heap, hypotheses, res)
                  /\ UNCHANGED tasks
    /\ UNCHANGED <<entry, config, estimator, intent, strategies, hypotheses,
                   source_calls, last_call>>

ForkTasks == SelectSeq(tasks, LAMBDA t : t.h \in Range(forked_hypotheses))

\* the second run_parallel returns to execute, which runs to its end
ForkPassJoins ==
    /\ phase = "fork_pass" /\ AllDone
    /\ results' = results \o ValidResults(ForkTasks)
    /\ hypotheses' = hypotheses \o forked_hypotheses
    /\ Finish(Heap, hypotheses \o forked_hypotheses, results \o ValidResults(ForkTasks))
    /\ UNCHANGED <<entry, config, estimator, intent, strategies, tasks,
                   forked_hypotheses, source_calls, last_call>>

Next ==
    \/ ExecuteCall
    \/ \E elim \in SUBSET (1..MaxHypotheses) : \E bad \in SUBSET (1..MaxHypotheses) :
          RunParallelCall(elim, bad)
    \/ \E i \in 1..(2 * MaxHypotheses) : LoopStart(i)
    \/ \E i \in 1..(2 * MaxHypotheses) : \E outcome \in Outcomes : QueryReturns(i, outcome)
    \/ RunParallelReturns
    \/ FirstPassJoins
    \/ ForkPassJoins

Spec == Init /\ [][Next]_vars

---------------------------------------------------------------------------
(* InterrogationLoop.run on its own: a caller runs the loop of one         *)
(* hypothesis of generate.                                                 *)

EmptyHeap == [hyp |-> <<>>, states |-> <<>>, lists |-> <<>>]

\* what an earlier run on the hypothesis may have left in its state: nothing,
\* or the evidence of one successful call
Priors == {o \in Outcomes : o.raises \/ QueryNetwork("builtin", o.results) # <<>>}

InitLoop ==
    /\ entry = "run"
    /\ config \in Configs
    /\ estimator \in {"builtin", "injected"}
    /\ intent \in {int \in Intents : int.decision_type \notin NoNetworkIntents}
    /\ strategies = Route(intent, config.max_hypotheses, config.routing_budget)
    /\ strategies # <<>>
    /\ \E h \in 1..MaxHypotheses : \E prior \in Priors :
         LET G == Generate(EmptyHeap, intent, strategies, config.max_hypotheses)
             P == LoopBody(G, estimator, NewTask(h), prior).H
         IN  /\ h \in DOMAIN G.hyp
             /\ hyp = P.hyp /\ states = P.states /\ lists = P.lists
             /\ hypotheses = Ids(Len(G.hyp))
             /\ tasks = <<NewTask(h)>>
    /\ forked_hypotheses = <<>> /\ results = <<>>
    /\ surviving = <<>> /\ eliminated = <<>>
    /\ phase = "run"
    /\ output = NoOutput
    /\ source_calls = 0
    /\ last_call = NoCall

NextLoop ==
    \/ LoopStart(1)
    \/ \E outcome \in Outcomes : QueryReturns(1, outcome)

\* the event loop runs the coroutine whenever it can run, and every Evidence
\* Source call it awaits returns
FairLoopSpec ==
    /\ InitLoop /\ [][NextLoop]_vars
    /\ WF_vars(LoopStart(1))
    /\ WF_vars(\E outcome \in Outcomes : QueryReturns(1, outcome))

---------------------------------------------------------------------------
(* InterrogationLoop.run with a confidence threshold the caller chose, on  *)
(* an Evidence Source that answers from one site only.                     *)

\* an Evidence Source call raises, finds nothing, or returns one page of blog.com
SingleSiteOutcomes ==
    { [raises |-> TRUE, results |-> <<>>], [raises |-> FALSE, results |-> <<>>] }
    \cup { [raises |-> FALSE,
            results |-> << [success |-> TRUE, content |-> c, source |-> "blog.com",
                            verified |-> (c = "essay"), score |-> 50] >>] : c \in Contents }

\* InterrogationLoop(interrogator, confidence_threshold, max_iterations, budget)
\* about to run on a hypothesis of generate that an earlier run left with
\* nothing or with the evidence of one call
InitThreshold ==
    /\ entry = "run"
    /\ config \in {[c EXCEPT !.confidence_threshold = t] :
                      c \in Configs, t \in {45, DefaultConfidenceThreshold}}
    /\ estimator = "builtin"
    /\ intent \in {int \in Intents : int.decision_type \notin NoNetworkIntents}
    /\ strategies = Route(intent, config.max_hypotheses, config.routing_budget)
    /\ strategies # <<>>
    /\ \E h \in 1..MaxHypotheses : \E prior \in SingleSiteOutcomes :
         LET G == Generate(EmptyHeap, intent, strategies, config.max_hypotheses)
             P == LoopBody(G, estimator, NewTask(h), prior).H
         IN  /\ h \in DOMAIN G.hyp
             /\ hyp = P.hyp /\ states = P.states /\ lists = P.lists
             /\ hypotheses = Ids(Len(G.hyp))
             /\ tasks = <<NewTask(h)>>
    /\ forked_hypotheses = <<>> /\ results = <<>>
    /\ surviving = <<>> /\ eliminated = <<>>
    /\ phase = "run"
    /\ output = NoOutput
    /\ source_calls = 0
    /\ last_call = NoCall

NextThreshold ==
    \/ LoopStart(1)
    \/ \E outcome \in SingleSiteOutcomes : QueryReturns(1, outcome)

SpecThreshold == InitThreshold /\ [][NextThreshold]_vars

---------------------------------------------------------------------------
(* The CognitiveState API on its own: a caller builds one state, then calls *)
(* add_evidence, detect_contradictions and fork on the states it holds.     *)

Topics == {"topic", "other"}

EvidencePool ==
    { [content |-> "the sky is blue today", source |-> "wiki.org", confidence |-> 80],
      [content |-> "the sky is not blue today", source |-> "blog.com", confidence |-> 70],
      [content |-> "essay", source |-> "nasa.gov", confidence |-> 90] }

DefaultConfig ==
    [max_hypotheses |-> MaxHypotheses,
     confidence_threshold |-> DefaultConfidenceThreshold,
     max_iterations |-> MaxIterations,
     budget |-> DefaultBudget,
     routing_budget |-> DefaultRoutingBudget,
     criteria |-> DefaultCriteria]

InitState ==
    /\ entry = "state_api"
    /\ config = DefaultConfig
    /\ estimator = "builtin"
    /\ intent = [decision_type |-> "factual", uncertainty |-> 20]
    /\ strategies = <<>>
    /\ hyp = <<>> /\ lists = <<>>
    /\ states = <<NewState(EnumLevel(UNKNOWN))>>
    /\ hypotheses = <<>> /\ forked_hypotheses = <<>>
    /\ tasks = <<>> /\ results = <<>>
    /\ surviving = <<>> /\ eliminated = <<>>
    /\ phase = "idle"
    /\ output = NoOutput
    /\ source_calls = 0
    /\ last_call = [NoCall EXCEPT !.origin = <<0>>]

StateApiUnchanged ==
    UNCHANGED <<entry, config, estimator, intent, strategies, hypotheses, tasks,
                results, phase, output, forked_hypotheses, surviving, eliminated,
                source_calls>>

AddEvidenceCall(sid, topic, ev) ==
    /\ entry = "state_api" /\ last_call.n < MaxStateOps
    /\ sid \in DOMAIN states
    /\ SetHeap(AddEvidence(Heap, sid, topic, ev))
    /\ last_call' = [last_call EXCEPT !.op = "add_evidence", !.sid = sid, !.n = @ + 1,
                                      !.topic = topic, !.returned = <<>>]
    /\ StateApiUnchanged

DetectContradictionsCall(sid, topic) ==
    /\ entry = "state_api" /\ last_call.n < MaxStateOps
    /\ sid \in DOMAIN states
    /\ SetHeap(DetectContradictions(Heap, sid, topic).H)
    /\ last_call' = [last_call EXCEPT !.op = "detect_contradictions", !.sid = sid,
                                      !.n = @ + 1, !.topic = topic,
                                      !.returned = DetectContradictions(Heap, sid, topic).new]
    /\ StateApiUnchanged

\* forked = states[sid].fork(); origin remembers which state each one was
\* forked from (0: built by the constructor)
ForkCall(sid) ==
    /\ entry = "state_api" /\ last_call.n < MaxStateOps
    /\ sid \in DOMAIN states
    /\ SetHeap(Fork(Heap, sid))
    /\ last_call' = [last_call EXCEPT !.op = "fork", !.sid = sid, !.n = @ + 1,
                                      !.origin = Append(@, sid),
                                      !.topic = "", !.returned = <<>>]
    /\ StateApiUnchanged

NextState ==
    \/ \E sid \in 1..(MaxStateOps + 1) : \E topic \in Topics : \E ev \in EvidencePool :
          AddEvidenceCall(sid, topic, ev)
    \/ \E sid \in 1..(MaxStateOps + 1) : \E topic \in Topics :
          DetectContradictionsCall(sid, topic)
    \/ \E sid \in 1..(MaxStateOps + 1) : ForkCall(sid)

SpecState == InitState /\ [][NextState]_vars

---------------------------------------------------------------------------
(* run_parallel and eliminate_weak in the hands of a caller: the batch      *)
(* runs, one Evidence Source call may never complete, and the caller hands  *)
(* the hypotheses and the results to an eliminator of its own.              *)

\* the EliminationCriteria a caller may construct the eliminator with
CriteriaPool ==
    { [min_confidence |-> DefaultMinConfidence, max_cost |-> mc,
       min_evidence |-> DefaultMinEvidence, max_contradictions |-> mx,
       convergence_required |-> cr] :
      mc \in {10, DefaultMaxCost}, mx \in {0, DefaultMaxContradictions},
      cr \in BOOLEAN }

InitBatch == Init /\ entry = "run_parallel"

\* the Evidence Source call coroutine i awaits never completes: the
\* coroutine stays suspended at its await
QueryHangs(i) ==
    /\ Running
    /\ i \in DOMAIN tasks /\ tasks[i].pc = "awaiting"
    /\ \A j \in DOMAIN tasks : tasks[j].pc # "hung"
    /\ tasks' = [tasks EXCEPT ![i].pc = "hung"]
    /\ UNCHANGED <<entry, config, estimator, intent, strategies, hyp, states, lists,
                   hypotheses, results, phase, output, forked_hypotheses,
                   surviving, eliminated, source_calls, last_call>>

\* HypothesisEliminator(criteria).eliminate_weak(hypotheses, results) on what
\* run_parallel was given and what it returned, and once more after that
EliminateWeakCall(criteria) ==
    /\ entry = "run_parallel" /\ phase \in {"rp_returned", "eliminated"}
    /\ config' = [config EXCEPT !.criteria = criteria]
    /\ \E E \in {EliminateWeak(Heap, criteria, hypotheses, results)} :
       /\ SetHeap(E.H)
       /\ IF E.raised THEN
              /\ phase' = "raised"
              /\ output' = Raised
              /\ UNCHANGED <<surviving, eliminated>>
          ELSE
              /\ phase' = IF phase = "rp_returned" THEN "eliminated" ELSE "eliminated_again"
              /\ surviving' = E.surviving
              /\ eliminated' = E.eliminated
              /\ UNCHANGED output
    /\ UNCHANGED <<entry, estimator, intent, strategies, hypotheses, tasks, results,
                   forked_hypotheses, source_calls, last_call>>

---------------------------------------------------------------------------
(* HypothesisEliminator: ranking and the decision to go on searching *)

\* _compute_hypothesis_score as the fraction num / den of thousandths
ScoreOf(H, h) ==
    LET o == H.hyp[h]
        evs == AllEvidence(H.lists, H.states[o.state].knowledge)
        n == IF evs = <<>> THEN 1 ELSE Len(evs)
        k == o.cost + 1
        m == Len(H.states[o.state].contradictions)
        efficiency == IF o.cost > 0
                      THEN (IF o.confidence >= 10 * k THEN 200 * n * k
                            ELSE 20 * o.confidence * n)
                      ELSE 200 * n * k
    IN  [num |-> n * k * (4 * o.confidence + 100 - Min(100, 20 * m))
                 + 3 * SumConfidence(evs) * k + efficiency,
         den |-> n * k]

ScoreLess(a, b) == a.num * b.den < b.num * a.den

\* a sort that puts a hypothesis before the hypotheses of equal score
RECURSIVE InsertRankedBeforeEqual(_, _, _)
InsertRankedBeforeEqual(H, ranked, h) ==
    IF ranked = <<>> THEN <<h>>
    ELSE IF ~ScoreLess(ScoreOf(H, h), ScoreOf(H, Head(ranked))) THEN <<h>> \o ranked
    ELSE <<Head(ranked)>> \o InsertRankedBeforeEqual(H, Tail(ranked), h)

\* list.sort(key=score, reverse=True), one element at a time: the sort is
\* stable, so h goes behind every hypothesis whose score is not less
RECURSIVE InsertRanked(_, _, _)
InsertRanked(H, ranked, h) ==
    IF ranked = <<>> THEN <<h>>
    ELSE IF ScoreLess(ScoreOf(H, Head(ranked)), ScoreOf(H, h)) THEN <<h>> \o ranked
    ELSE <<Head(ranked)>> \o InsertRanked(H, Tail(ranked), h)

RECURSIVE RankFrom(_, _, _, _)
RankFrom(H, hs, i, ranked) ==
    IF i > Len(hs) THEN ranked
    ELSE IF H.hyp[hs[i]].eliminated THEN RankFrom(H, hs, i + 1, ranked)
    ELSE RankFrom(H, hs, i + 1, InsertRanked(H, ranked, hs[i]))

\* a ranking that takes the eliminated hypotheses too
RankHypothesesOfAll(H, hs) ==
    RankFrom([H EXCEPT !.hyp = [i \in DOMAIN H.hyp |-> [H.hyp[i] EXCEPT !.eliminated = FALSE]]],
             hs, 1, <<>>)

RankHypotheses(H, hs) == RankFrom(H, hs, 1, <<>>)

SelectBest(H, hs, n) == Take(RankHypotheses(H, hs), n)

ShouldContinueSearch(H, hs, threshold) ==
    LET active == SelectSeq(hs, LAMBDA h : ~H.hyp[h].eliminated)
        best == SelectBest(H, active, 1)
    IN  IF hs = <<>> THEN TRUE
        ELSE IF active = <<>> THEN FALSE
        ELSE IF best # <<>> /\ H.hyp[best[1]].confidence >= threshold THEN FALSE
        ELSE TRUE

---------------------------------------------------------------------------
(* ParallelInterrogationEngine.should_fork *)

\* a test that lets the confidence bounds in
EngineShouldForkInclusive(H, h) ==
    LET o == H.hyp[h]
        cs == H.states[o.state].contradictions
    IN  /\ cs # <<>>
        /\ cs[Len(cs)].severity > 60
        /\ 30 <= o.confidence
        /\ o.confidence <= 70

EngineShouldFork(H, h) ==
    LET o == H.hyp[h]
        cs == H.states[o.state].contradictions
    IN  IF cs = <<>> THEN FALSE
        ELSE IF cs[Len(cs)].severity > 60 /\ 30 < o.confidence /\ o.confidence < 70
             THEN TRUE
        ELSE FALSE

---------------------------------------------------------------------------
(* StateSynthesizer.synthesize *)

RECURSIVE EvidenceOf(_, _)
EvidenceOf(H, hs) ==
    IF hs = <<>> THEN <<>>
    ELSE AllEvidence(H.lists, H.states[H.hyp[Head(hs)].state].knowledge)
         \o EvidenceOf(H, Tail(hs))

\* the first evidence item of every (source, content[:100]) key
RECURSIVE UniqueEvidence(_, _)
UniqueEvidence(evs, seen) ==
    IF evs = <<>> THEN <<>>
    ELSE LET key == <<Head(evs).source, Prefix100(Head(evs).content)>>
         IN  IF key \in seen THEN UniqueEvidence(Tail(evs), seen)
             ELSE <<Head(evs)>> \o UniqueEvidence(Tail(evs), seen \cup {key})

\* a summary cut to its length before it is sorted
AggregateEvidenceCutFirst(H, hs) ==
    LET unique == Take(UniqueEvidence(EvidenceOf(H, hs), {}), 10)
    IN  Values(SortDesc([i \in DOMAIN unique |->
                           [key |-> unique[i].confidence, val |-> unique[i]]]))

AggregateEvidence(H, hs) ==
    LET unique == UniqueEvidence(EvidenceOf(H, hs), {})
    IN  Take(Values(SortDesc([i \in DOMAIN unique |->
                                [key |-> unique[i].confidence, val |-> unique[i]]])), 10)

ContradictionsSimilar(c1, c2) ==
    LET words1 == Words(c1.claim_a) \cup Words(c1.claim_b)
        words2 == Words(c2.claim_a) \cup Words(c2.claim_b)
    IN  IF words1 = {} \/ words2 = {} THEN FALSE
        ELSE 2 * Cardinality(words1 \cap words2)
               > Min(Cardinality(words1), Cardinality(words2))

RECURSIVE ContradictionsOf(_, _)
ContradictionsOf(H, hs) ==
    IF hs = <<>> THEN <<>>
    ELSE H.states[H.hyp[Head(hs)].state].contradictions \o ContradictionsOf(H, Tail(hs))

RECURSIVE UniqueContradictions(_, _)
UniqueContradictions(cs, unique) ==
    IF cs = <<>> THEN unique
    ELSE IF \E i \in DOMAIN unique : ContradictionsSimilar(Head(cs), unique[i])
         THEN UniqueContradictions(Tail(cs), unique)
    ELSE UniqueContradictions(Tail(cs), Append(unique, Head(cs)))

AggregateContradictions(H, hs) ==
    LET all == ContradictionsOf(H, hs)
    IN  UniqueContradictions(
            Values(SortDesc([i \in DOMAIN all |-> [key |-> all[i].severity, val |-> all[i]]])),
            <<>>)

\* the descriptions of the hypotheses behind the most confident one
ExtractAlternatives(H, hs) ==
    LET sorted_h == Values(SortDesc([i \in DOMAIN hs |->
                                       [key |-> H.hyp[hs[i]].confidence, val |-> hs[i]]]))
    IN  IF Len(hs) <= 1 THEN <<>>
        ELSE [i \in 1..Min(3, Len(sorted_h) - 1) |->
                [description |-> H.hyp[sorted_h[i + 1]].description,
                 confidence |-> H.hyp[sorted_h[i + 1]].confidence]]

IdsOf(H, hs) == [i \in DOMAIN hs |-> H.hyp[hs[i]].id]

SynthesizedState(decision, confidence, interval, evidence_summary, contradictions, alternatives, uncertainty_level, contributing, eliminated_ids) ==
    [kind |-> "synthesized", decision |-> decision, confidence |-> confidence,
     confidence_interval |-> interval, evidence_summary |-> evidence_summary,
     contradictions |-> contradictions, alternatives |-> alternatives,
     uncertainty_level |-> uncertainty_level,
     contributing_hypotheses |-> contributing, eliminated_hypotheses |-> eliminated_ids]

CreateEmptyState(H, elim) ==
    SynthesizedState(<<"Unable to reach decision. All hypotheses eliminated.">>, 0, <<0, 0>>,
                     <<>>, <<>>, <<>>, "UNKNOWN", <<>>, IdsOf(H, elim))

\* a synthesize without the early return for an empty list
SynthesizeNoEmptyCase(H, surv, elim) ==
    SynthesizedState(<<"answer">>, AggregateConfidence(H, surv),
                     CalculateConfidenceInterval(H, surv), AggregateEvidence(H, surv),
                     AggregateContradictions(H, surv), ExtractAlternatives(H, surv),
                     DetermineUncertainty(AggregateConfidence(H, surv)),
                     IdsOf(H, surv), <<>>)

Synthesize(H, surv, elim) ==
    IF surv = <<>> THEN CreateEmptyState(H, elim)
    ELSE SynthesizedState(<<"answer">>, AggregateConfidence(H, surv),
                          CalculateConfidenceInterval(H, surv), AggregateEvidence(H, surv),
                          AggregateContradictions(H, surv), ExtractAlternatives(H, surv),
                          DetermineUncertainty(AggregateConfidence(H, surv)),
                          IdsOf(H, surv), IdsOf(H, elim))

---------------------------------------------------------------------------
(* The eliminator, should_fork and the synthesizer in the hands of a caller *)
(* that builds its hypotheses itself, as tests/test_algorithmic_core.py     *)
(* does: Hypothesis(..., state=CognitiveState(), confidence=c), evidence    *)
(* added with add_evidence.  The caller builds, may eliminate, then calls.  *)

TestEvidence ==
    { [content |-> "the sky is blue today", source |-> "wiki.org", confidence |-> 90],
      [content |-> "the sky is not blue today", source |-> "blog.com", confidence |-> 10],
      [content |-> "the sky is not blue today", source |-> "news.com", confidence |-> 30] }

TestConfidences == {30, 50, 70}
TestCosts == {0, 20}
TestThresholds == {50, 80}

InitApi ==
    /\ entry = "api"
    /\ config = DefaultConfig
    /\ estimator = "builtin"
    /\ intent = [decision_type |-> "factual", uncertainty |-> 20]
    /\ strategies = <<Encyclopedic>>
    /\ hyp = <<>> /\ states = <<>> /\ lists = <<>>
    /\ hypotheses = <<>> /\ forked_hypotheses = <<>>
    /\ tasks = <<>> /\ results = <<>>
    /\ surviving = <<>> /\ eliminated = <<>>
    /\ phase = "idle"
    /\ output = NoOutput
    /\ source_calls = 0
    /\ last_call = NoCall

ApiUnchanged ==
    UNCHANGED <<entry, config, estimator, intent, strategies, tasks, results,
                forked_hypotheses, source_calls>>

Building == entry = "api" /\ phase = "idle" /\ output = NoOutput

\* hypotheses.append(Hypothesis(..., state=CognitiveState(), confidence=c, cost=k))
NewHypothesisCall(confidence, cost) ==
    /\ Building /\ last_call.n < MaxStateOps
    /\ Len(hypotheses) < MaxHypotheses
    /\ LET H1 == Allocate(Heap, <<PlainHypothesis(<<"Hypothesis", ToString(Len(hyp) + 1)>>,
                                                  <<>>, strategies[1])>>)
           h == Len(H1.hyp)
       IN  /\ SetHeap([H1 EXCEPT !.hyp[h].confidence = confidence, !.hyp[h].cost = cost])
           /\ hypotheses' = Append(hypotheses, h)
    /\ last_call' = [last_call EXCEPT !.op = "Hypothesis", !.n = @ + 1]
    /\ UNCHANGED <<phase, output, surviving, eliminated>>
    /\ ApiUnchanged

\* hypotheses[h].state.add_evidence("test", ev)
AddTestEvidenceCall(h, ev) ==
    /\ Building /\ last_call.n < MaxStateOps
    /\ h \in DOMAIN hyp
    /\ SetHeap(AddEvidence(Heap, hyp[h].state, "test", ev))
    /\ last_call' = [last_call EXCEPT !.op = "add_evidence", !.sid = hyp[h].state,
                                      !.n = @ + 1]
    /\ UNCHANGED <<hypotheses, phase, output, surviving, eliminated>>
    /\ ApiUnchanged

\* hypotheses[h].state.detect_contradictions("test")
DetectTestContradictionsCall(h) ==
    /\ Building /\ last_call.n < MaxStateOps
    /\ h \in DOMAIN hyp
    /\ SetHeap(DetectContradictions(Heap, hyp[h].state, "test").H)
    /\ last_call' = [last_call EXCEPT !.op = "detect_contradictions",
                                      !.sid = hyp[h].state, !.n = @ + 1]
    /\ UNCHANGED <<hypotheses, phase, output, surviving, eliminated>>
    /\ ApiUnchanged

\* surviving, eliminated = HypothesisEliminator().eliminate_weak(hypotheses)
EliminateBuiltCall ==
    /\ Building
    /\ \E E \in {EliminateWeak(Heap, config.criteria, hypotheses, <<>>)} :
       /\ SetHeap(E.H)
       /\ IF E.raised THEN
              /\ phase' = "raised"
              /\ UNCHANGED <<surviving, eliminated>>
          ELSE
              /\ phase' = "eliminated"
              /\ surviving' = E.surviving
              /\ eliminated' = E.eliminated
    /\ UNCHANGED <<hypotheses, output, last_call>>
    /\ ApiUnchanged

ApiCallUnchanged ==
    /\ UNCHANGED <<hyp, states, lists, hypotheses, phase, surviving, eliminated, last_call>>
    /\ ApiUnchanged

\* hypotheses = HypothesisGenerator(max_hypotheses).generate(intent, strategies)
\* with the strategies of a route of the intent
GenerateCall(int, strats, max_hypotheses) ==
    /\ Building /\ hyp = <<>>
    /\ \E G \in {Generate(Heap, int, strats, max_hypotheses)} :
       /\ SetHeap(G)
       /\ hypotheses' = Ids(Len(G.hyp))
       /\ output' = [kind |-> "generated", intent |-> int, strategies |-> strats,
                     max_hypotheses |-> max_hypotheses, hypotheses |-> Ids(Len(G.hyp))]
    /\ last_call' = [last_call EXCEPT !.op = "generate", !.n = @ + 1]
    /\ UNCHANGED <<phase, surviving, eliminated>>
    /\ ApiUnchanged

\* strategies = EpistemicRouter().route(intent, max_strategies, budget)
RouteCall(int, max_strategies, budget) ==
    /\ Building /\ hyp = <<>>
    /\ output' = [kind |-> "routed", intent |-> int, max_strategies |-> max_strategies,
                  budget |-> budget, strategies |-> Route(int, max_strategies, budget)]
    /\ ApiCallUnchanged

\* forked = generator.fork_hypothesis(hypotheses[h]), once
ForkHypothesisCall(h) ==
    /\ entry = "api" /\ phase = "idle"
    /\ h \in DOMAIN hyp /\ Len(hyp) = Len(hypotheses)
    /\ SetHeap(ForkHypothesis(Heap, h))
    /\ output' = [kind |-> "forked", origin |-> h, forked |-> Len(hyp) + 1,
                  before |-> Heap]
    /\ last_call' = [last_call EXCEPT !.op = "fork_hypothesis"]
    /\ UNCHANGED <<hypotheses, phase, surviving, eliminated>>
    /\ ApiUnchanged

Callable ==
    \/ entry = "api" /\ phase \in {"idle", "eliminated"}
    \/ entry = "run_parallel" /\ phase \in {"eliminated", "eliminated_again"}

RankHypothesesCall ==
    /\ Callable
    /\ output' = [kind |-> "ranked", ranked |-> RankHypotheses(Heap, hypotheses),
                  best |-> SelectBest(Heap, hypotheses, 1)]
    /\ ApiCallUnchanged

ShouldContinueSearchCall(threshold) ==
    /\ Callable
    /\ output' = [kind |-> "should_continue_search", threshold |-> threshold,
                  value |-> ShouldContinueSearch(Heap, hypotheses, threshold)]
    /\ ApiCallUnchanged

\* the engine's test and the test execute applies, on the same hypothesis
ShouldForkCall(h) ==
    /\ Callable
    /\ h \in DOMAIN hyp
    /\ output' = [kind |-> "should_fork", hypothesis |-> h,
                  engine |-> EngineShouldFork(Heap, h), core |-> ShouldFork(Heap, h)]
    /\ ApiCallUnchanged

\* synthesize(surviving, eliminated) after an elimination, or
\* synthesize(hypotheses, []) on the hypotheses as built
SynthesizeCall ==
    /\ Callable
    /\ output' = IF phase = "eliminated" THEN Synthesize(Heap, surviving, eliminated)
                 ELSE Synthesize(Heap, hypotheses, <<>>)
    /\ ApiCallUnchanged

NextApi ==
    \/ \E confidence \in TestConfidences : \E cost \in TestCosts :
          NewHypothesisCall(confidence, cost)
    \/ \E h \in 1..MaxHypotheses : \E ev \in TestEvidence : AddTestEvidenceCall(h, ev)
    \/ \E h \in 1..MaxHypotheses : DetectTestContradictionsCall(h)
    \/ \E int \in Intents : \E m \in 0..(MaxHypotheses + 1) :
       \E max_hypotheses \in 1..MaxHypotheses :
          GenerateCall(int, Route(int, m, DefaultRoutingBudget), max_hypotheses)
    \/ \E int \in [decision_type : {"factual", "comparative", "predictive"},
                    uncertainty : {20, 30, 50, 80}] :
       \E max_strategies \in 0..(MaxHypotheses + 1) : \E budget \in {0, 10, 25, 100} :
          RouteCall(int, max_strategies, budget)
    \/ \E h \in 1..MaxHypotheses : ForkHypothesisCall(h)
    \/ EliminateBuiltCall
    \/ RankHypothesesCall
    \/ \E threshold \in TestThresholds : ShouldContinueSearchCall(threshold)
    \/ \E h \in 1..MaxHypotheses : ShouldForkCall(h)
    \/ SynthesizeCall

SpecApi == InitApi /\ [][NextApi]_vars

\* run_parallel, then the eliminator and the ranking on what it returned
NextBatch ==
    \/ \E elim \in SUBSET (1..MaxHypotheses) : \E bad \in SUBSET (1..MaxHypotheses) :
          RunParallelCall(elim, bad)
    \/ \E i \in 1..MaxHypotheses : LoopStart(i)
    \/ \E i \in 1..MaxHypotheses : \E outcome \in Outcomes : QueryReturns(i, outcome)
    \/ \E i \in 1..MaxHypotheses : QueryHangs(i)
    \/ RunParallelReturns
    \/ \E criteria \in CriteriaPool : EliminateWeakCall(criteria)
    \/ RankHypothesesCall

\* the event loop runs every coroutine that can run, every Evidence Source
\* call that completes at all is delivered, and gather returns once every
\* coroutine has ended
FairBatchSpec ==
    /\ InitBatch /\ [][NextBatch]_vars
    /\ \A i \in 1..MaxHypotheses :
          /\ WF_vars(LoopStart(i))
          /\ WF_vars(\E outcome \in Outcomes : QueryReturns(i, outcome))
    /\ WF_vars(RunParallelReturns)

---------------------------------------------------------------------------
(* synthesize on survivors that hold many evidence items: a caller hands   *)
(* synthesize two survivors and one eliminated hypothesis, the survivors   *)
(* sharing k items of twelve distinct (source, content[:100]) keys.        *)

\* the i-th evidence item, its confidence following the shape
SummaryItem(shape, i) ==
    LET sources == <<"wiki.org", "blog.com", "nasa.gov", "news.com">>
        contents == <<"the sky is blue today", "the sky is not blue today", "essay">>
    IN  [content |-> contents[(((i - 1) \div 4) % 3) + 1],
         source |-> sources[((i - 1) % 4) + 1],
         confidence |-> IF shape = "up" THEN 20 + 5 * i
                        ELSE IF shape = "down" THEN 85 - 5 * i
                        ELSE IF shape = "flat" THEN 50
                        ELSE IF i % 2 = 1 THEN 30 + i ELSE 90 - i]

InitSummary ==
    /\ entry = "api"
    /\ config = DefaultConfig
    /\ estimator = "builtin"
    /\ intent = [decision_type |-> "factual", uncertainty |-> 20]
    /\ strategies = <<Encyclopedic>>
    /\ \E k \in 0..12 : \E shape \in {"up", "down", "flat", "zigzag"} : \E cut \in {0, k \div 2, k} :
       \E dup \in BOOLEAN :
         LET items == [i \in 1..k |-> SummaryItem(shape, i)]
             H0 == Allocate(EmptyHeap,
                      [i \in 1..3 |-> PlainHypothesis(<<"Hypothesis", ToString(i)>>,
                                                      <<>>, Encyclopedic)])
             H1 == [H0 EXCEPT !.hyp[1].confidence = 50, !.hyp[2].confidence = 70,
                              !.hyp[3].confidence = 10, !.hyp[3].eliminated = TRUE,
                              !.hyp[3].elimination_reason = "Low confidence"]
             H2 == AddAllEvidence(H1, 1, "test", SubSeq(items, 1, cut))
             H3 == AddAllEvidence(H2, 2, "test", SubSeq(items, cut + 1, k))
             H4 == IF dup /\ k > 0
                   THEN AddEvidence(H3, 2, "test",
                                    [items[1] EXCEPT !.confidence = 100 - @])
                   ELSE H3
             H5 == AddEvidence(H4, 3, "test",
                      [content |-> "essay", source |-> "forum.net", confidence |-> 95])
         IN  hyp = H5.hyp /\ states = H5.states /\ lists = H5.lists
    /\ hypotheses = <<1, 2, 3>> /\ forked_hypotheses = <<>>
    /\ tasks = <<>> /\ results = <<>>
    /\ surviving = <<1, 2>> /\ eliminated = <<3>>
    /\ phase = "eliminated"
    /\ output = NoOutput
    /\ source_calls = 0
    /\ last_call = NoCall

NextSummary == SynthesizeCall

SpecSummary == InitSummary /\ [][NextSummary]_vars

---------------------------------------------------------------------------
(* synthesize on its own: a caller hands it one or two survivors it built, *)
(* each with a confidence, a cost and up to two evidence items.            *)

InitMean ==
    /\ entry = "api"
    /\ config = DefaultConfig
    /\ estimator = "builtin"
    /\ intent = [decision_type |-> "factual", uncertainty |-> 20]
    /\ strategies = <<Encyclopedic>>
    /\ \E c \in [1..2 -> {0, 46, 70}] : \E k \in [1..2 -> TestCosts] :
       \E n \in [1..2 -> 0..2] :
         LET item == [content |-> "the sky is blue today", source |-> "wiki.org",
                      confidence |-> 80]
             H0 == Allocate(EmptyHeap,
                      [i \in 1..2 |-> PlainHypothesis(<<"Hypothesis", ToString(i)>>,
                                                      <<>>, Encyclopedic)])
             H1 == [H0 EXCEPT !.hyp = [i \in 1..2 |->
                       [@[i] EXCEPT !.confidence = c[i], !.cost = k[i]]]]
             H2 == AddAllEvidence(H1, 1, "test", [i \in 1..n[1] |-> item])
             H3 == AddAllEvidence(H2, 2, "test", [i \in 1..n[2] |-> item])
         IN  hyp = H3.hyp /\ states = H3.states /\ lists = H3.lists
    /\ hypotheses = <<1, 2>> /\ forked_hypotheses = <<>>
    /\ tasks = <<>> /\ results = <<>>
    /\ surviving \in {<<1>>, <<1, 2>>} /\ eliminated = <<>>
    /\ phase = "eliminated"
    /\ output = NoOutput
    /\ source_calls = 0
    /\ last_call = NoCall

SpecMean == InitMean /\ [][NextSummary]_vars

---------------------------------------------------------------------------
(* What an observer sees of a state and of a hypothesis *)

\* per topic the evidence in order, the contradictions, the sources, the confidence
StateViewOf(H, sid) ==
    LET st == H.states[sid] IN
    [knowledge |-> [i \in DOMAIN st.knowledge |->
                      [topic |-> st.knowledge[i].topic,
                       evidence |-> H.lists[st.knowledge[i].list]]],
     contradictions |-> st.contradictions,
     sources_accessed |-> st.sources_accessed,
     confidence |-> st.confidence]

HypViewOf(H, h) ==
    [state |-> StateViewOf(H, H.hyp[h].state),
     confidence |-> H.hyp[h].confidence,
     cost |-> H.hyp[h].cost]

ConvergenceReasons ==
    {"confidence_threshold_reached", "max_iterations_exceeded", "budget_exceeded",
     "no_more_queries"}

\* the hypotheses generate built, as opposed to the forks made of them
Originals == {h \in Range(hypotheses) : h \notin Range(forked_hypotheses)}

---------------------------------------------------------------------------
(* Claims *)

\* C1: under FairLoopSpec (every Evidence Source call returns), the loop of
\* a hypothesis of generate returns, whatever the calls return or raise, and
\* its convergence_reason is one of the four reasons.
C1_LoopTerminates ==
    (tasks[1].pc \in {"created", "awaiting"})
    ~> (/\ tasks[1].pc = "returned"
        /\ tasks[1].convergence_reason \in ConvergenceReasons)

\* a loop has returned after as many failed calls as the iteration limit allows
C1_Witness ==
    \E i \in DOMAIN tasks :
        /\ tasks[i].pc = "returned"
        /\ tasks[i].attempts = MaxIterations
        /\ tasks[i].hist[1].raises
        /\ tasks[i].convergence_reason = "max_iterations_exceeded"

\* C2: a call of add_evidence or detect_contradictions on a forked state
\* leaves what is seen of the state it was forked from as it is: evidence
\* per topic, contradictions, sources_accessed and confidence.
C2_ForkIsolation ==
    [][\A s \in DOMAIN states :
          (/\ last_call'.n = last_call.n + 1
           /\ last_call'.op \in {"add_evidence", "detect_contradictions"}
           /\ last_call.origin[last_call'.sid] = s)
          => StateViewOf(Heap, s)' = StateViewOf(Heap, s)]_vars

\* C3: execute never raises.
C3_ExecuteNeverRaises == entry = "execute" => phase # "raised"

\* C4: when execute returns because the router gave no strategy, or because
\* no hypothesis survived, the result has confidence 0, interval (0, 0),
\* uncertainty UNKNOWN and a decision naming the reason; with no strategy it
\* reports zero hypotheses and the Evidence Source was never queried.
C4_StarvationSurfaced ==
    (entry = "execute" /\ phase = "returned"
        /\ intent.decision_type \notin NoNetworkIntents)
    => /\ strategies = <<>> =>
            /\ output.decision = <<"Unable to process: ", "no_strategies">>
            /\ output.confidence = 0 /\ output.confidence_interval = <<0, 0>>
            /\ output.uncertainty = "UNKNOWN"
            /\ output.total = 0 /\ hyp = <<>> /\ tasks = <<>>
            /\ source_calls = 0
       /\ (strategies # <<>> /\ surviving = <<>>) =>
            /\ output.decision = <<"Unable to process: ", "all_eliminated">>
            /\ output.confidence = 0 /\ output.confidence_interval = <<0, 0>>
            /\ output.uncertainty = "UNKNOWN"

\* every hypothesis was interrogated and eliminated
C4_Witness ==
    /\ entry = "execute" /\ phase = "returned"
    /\ strategies # <<>> /\ surviving = <<>>
    /\ Len(eliminated) = MaxHypotheses
    /\ source_calls > 0
    /\ output.decision = <<"Unable to process: ", "all_eliminated">>

\* the three stop conditions as they hold for task t now
ConfidenceReached(t) ==
    states[hyp[t.h].state].confidence >= config.confidence_threshold
LimitExceeded(t) == t.iteration > config.max_iterations
BudgetExceeded(t) == t.total_cost >= config.budget

\* C5: a query is selected or issued only when none of the three stop
\* conditions holds; a loop that stopped on one of them reports the first
\* that holds, in the order confidence, iteration limit, budget; converged
\* is true exactly for confidence_threshold_reached.
C5_StopOrder ==
    \A i \in DOMAIN tasks :
        LET t == tasks[i] IN
        /\ (t.pc = "awaiting" \/ (t.pc = "returned" /\ t.convergence_reason = "no_more_queries"))
            => ~ConfidenceReached(t) /\ ~LimitExceeded(t) /\ ~BudgetExceeded(t)
        /\ t.pc = "returned" =>
            /\ ConfidenceReached(t) => t.convergence_reason = "confidence_threshold_reached"
            /\ (~ConfidenceReached(t) /\ LimitExceeded(t))
                  => t.convergence_reason = "max_iterations_exceeded"
            /\ (~ConfidenceReached(t) /\ ~LimitExceeded(t) /\ BudgetExceeded(t))
                  => t.convergence_reason = "budget_exceeded"
            /\ t.converged <=> (t.convergence_reason = "confidence_threshold_reached")

\* a loop stopped after a query while all three conditions held at once
C5_Witness ==
    \E i \in DOMAIN tasks :
        /\ tasks[i].pc = "returned" /\ tasks[i].attempts >= 1
        /\ ConfidenceReached(tasks[i]) /\ LimitExceeded(tasks[i]) /\ BudgetExceeded(tasks[i])
        /\ tasks[i].converged

\* C6: with a budget of 0 a loop makes at most one query attempt, and ends
\* with budget_exceeded, confidence_threshold_reached or max_iterations_exceeded.
C6_ZeroBudget ==
    config.budget = 0 =>
        \A i \in DOMAIN tasks :
            /\ tasks[i].attempts + Issued(tasks[i]) <= 1
            /\ tasks[i].pc # "raised"
            /\ tasks[i].pc = "returned" =>
                  tasks[i].convergence_reason \in
                      {"budget_exceeded", "confidence_threshold_reached",
                       "max_iterations_exceeded"}

\* with a budget of 0 and iterations allowed, a loop ended with budget_exceeded
C6_Witness ==
    /\ config.budget = 0 /\ config.max_iterations > 0
    /\ \E i \in DOMAIN tasks :
          /\ tasks[i].pc = "returned"
          /\ tasks[i].convergence_reason = "budget_exceeded"

\* the call raised, or returned results that are all marked unsuccessful
FailedOutcome(outcome) ==
    \/ outcome.raises
    \/ /\ outcome.results # <<>>
       /\ \A k \in DOMAIN outcome.results : ~outcome.results[k].success

\* C7: an iteration whose query failed does not end the loop with an
\* exception, and leaves the accumulated cost, the hypothesis's cost, its
\* evidence, contradictions and confidence as they were.
C7_FailedQueryChangesNothing ==
    [][\A i \in DOMAIN tasks :
          (/\ tasks'[i].attempts = tasks[i].attempts + 1
           /\ FailedOutcome(tasks'[i].hist[Len(tasks'[i].hist)]))
          => /\ tasks'[i].pc # "raised"
             /\ tasks'[i].total_cost = tasks[i].total_cost
             /\ HypViewOf(Heap, tasks[i].h)' = HypViewOf(Heap, tasks[i].h)]_vars

\* C8: run_parallel starts one loop per input hypothesis that is not
\* eliminated, in input order, and none for an eliminated one; when it has
\* returned, its results are those of the loops that returned, one each, in
\* order, for distinct input hypotheses; a loop that raised is only missing.
C8_RunParallelResults ==
    /\ phase \in {"rp_running", "rp_returned"} =>
          [i \in DOMAIN tasks |-> tasks[i].h]
              = SelectSeq(hypotheses, LAMBDA h : ~hyp[h].eliminated)
    /\ phase = "rp_returned" =>
          /\ Len(results) = Cardinality({i \in DOMAIN tasks : tasks[i].pc = "returned"})
          /\ \A i \in DOMAIN tasks : tasks[i].pc = "returned" =>
                \E k \in DOMAIN results :
                    /\ results[k].hypothesis = tasks[i].h
                    /\ results[k].iterations = tasks[i].iteration
                    /\ results[k].total_cost = tasks[i].total_cost
                    /\ results[k].convergence_reason = tasks[i].convergence_reason
          /\ \A k \in DOMAIN results :
                /\ results[k].hypothesis \in Range(hypotheses)
                /\ ~hyp[results[k].hypothesis].eliminated
                /\ \A m \in DOMAIN results :
                      k < m => results[k].hypothesis < results[m].hypothesis

\* run_parallel has returned the result of the second loop after the first raised
C8_Witness ==
    /\ phase = "rp_returned"
    /\ Len(tasks) = 2
    /\ tasks[1].pc = "raised" /\ tasks[2].pc = "returned"
    /\ tasks[2].attempts >= 1
    /\ Len(results) = 1

\* the loop of hypothesis h run alone, from the hypotheses as generate built
\* them, the Evidence Source returning hist call by call
RECURSIVE ReplayFrom(_, _)
ReplayFrom(R, hist) ==
    IF hist = <<>> \/ R.t.pc # "awaiting" THEN R
    ELSE ReplayFrom(LoopResume(R.H, config, estimator, R.t, Head(hist)), Tail(hist))

Replay(h, hist) ==
    LET G == Generate(EmptyHeap, intent, strategies, config.max_hypotheses)
    IN  IF hist = <<>> THEN [H |-> G, t |-> LoopTop(G, config, NewTask(h))]
        ELSE ReplayFrom([H |-> G, t |-> LoopTop(G, config, NewTask(h))], hist)

\* the lists of evidence a state reaches
ListsOf(sid) == {states[sid].knowledge[k].list : k \in DOMAIN states[sid].knowledge}

\* C9: the hypotheses of generate own distinct states that share no evidence
\* list, and however the loops of execute's first pass interleave, each
\* loop that has started is where it would be, with its hypothesis's state,
\* cost and confidence what they would be, had it run alone on the same
\* Evidence Source outcomes.
C9_LoopsIndependent ==
    (entry = "execute" /\ phase \in {"first_pass", "fork_pass", "returned", "raised"}) =>
        /\ \A g, h \in Originals :
              g # h =>
                 /\ hyp[g].state # hyp[h].state
                 /\ ListsOf(hyp[g].state) \cap ListsOf(hyp[h].state) = {}
        /\ \A i \in DOMAIN tasks :
              (tasks[i].h \in Originals /\ tasks[i].pc # "created") =>
                 LET R == Replay(tasks[i].h, tasks[i].hist) IN
                 /\ R.t = tasks[i]
                 /\ HypViewOf(R.H, tasks[i].h) = HypViewOf(Heap, tasks[i].h)

\* two loops of the first pass have each stored evidence, the second one's
\* first call returning before the first one's last
C9_Witness ==
    /\ entry = "execute" /\ phase = "first_pass"
    /\ Len(tasks) = 2
    /\ tasks[1].pc = "awaiting" /\ tasks[1].attempts = 1
    /\ tasks[2].pc = "returned" /\ tasks[2].attempts = 1
    /\ states[hyp[1].state].knowledge # <<>>
    /\ states[hyp[2].state].knowledge # <<>>

\* C10: in execute, once the loop of a hypothesis of generate has returned,
\* no later step (the other loops, the creation of the forks, the loops of
\* the forks, elimination) changes what is seen of it: its evidence per
\* topic, contradictions, sources_accessed, state confidence, confidence
\* and cost.
C10_ForksLeaveOriginsAlone ==
    [][entry = "execute" =>
          \A i \in DOMAIN tasks :
              (tasks[i].pc = "returned" /\ tasks[i].h \in Originals) =>
                  HypViewOf(Heap, tasks[i].h)' = HypViewOf(Heap, tasks[i].h)]_vars

\* the loop of a fork has stored evidence of its own
C10_Witness ==
    /\ phase = "fork_pass"
    /\ \E i \in DOMAIN tasks :
          /\ tasks[i].h \in Range(forked_hypotheses)
          /\ tasks[i].attempts >= 1
          /\ Len(states[hyp[tasks[i].h].state].knowledge) >= 2

\* C11: in execute, forks exist only once every loop of the first batch has
\* ended; the loops started are one per hypothesis of generate followed by
\* one per fork, in the order of the forks, so that no hypothesis is run
\* twice; and a hypothesis is marked eliminated, or execute has ended after
\* starting loops, only once every loop of both passes has ended.
C11_JoinBarrier ==
    entry = "execute" =>
      /\ forked_hypotheses # <<>> =>
           \A i \in DOMAIN tasks :
               tasks[i].h \notin Range(forked_hypotheses) => Done(tasks[i])
      /\ \A i, j \in DOMAIN tasks : i # j => tasks[i].h # tasks[j].h
      /\ [k \in DOMAIN ForkTasks |-> ForkTasks[k].h] = forked_hypotheses
      /\ \A i \in DOMAIN tasks : tasks[i].h \in Range(forked_hypotheses) =>
             phase \in {"fork_pass", "returned", "raised"}
      /\ ( \/ (phase \in {"returned", "raised"} /\ tasks # <<>>)
           \/ \E h \in DOMAIN hyp : hyp[h].eliminated
           \/ surviving # <<>> \/ eliminated # <<>> )
         => \A i \in DOMAIN tasks : Done(tasks[i])

\* execute has ended after a second pass in which the loop of a fork made a
\* call of its own
C11_Witness ==
    /\ entry = "execute" /\ phase \in {"returned", "raised"}
    /\ forked_hypotheses # <<>>
    /\ \E i \in DOMAIN tasks :
          /\ tasks[i].h \in Range(forked_hypotheses)
          /\ tasks[i].attempts >= 1
    /\ \E h \in DOMAIN hyp : hyp[h].eliminated

\* C12: a batch that run_parallel started returns to its caller, also when
\* one Evidence Source call never completes.
C12_BatchReturns == (phase = "rp_running") ~> (phase = "rp_returned")

\* C13: a call of eliminate_weak decides every hypothesis of its input by the
\* first criterion that matches, in the order: already marked eliminated,
\* confidence < min_confidence, cost > max_cost, evidence count <
\* min_evidence, contradiction count > max_contradictions,
\* convergence_required and the hypothesis's own result did not converge,
\* uncertainty UNKNOWN and confidence < 0.5.  It records the reason of that
\* criterion alone, and retains a hypothesis that matches none.
C13_FirstMatchingCriterion ==
    [][(phase = "rp_returned" /\ phase' # "rp_returned") =>
         \A k \in DOMAIN hypotheses :
           LET h == hypotheses[k]
               o == hyp[h]
               st == states[o.state]
               c == config'.criteria
               own == {i \in DOMAIN results : results[i].hypothesis = h}
               reason ==
                 IF o.eliminated THEN o.elimination_reason
                 ELSE IF o.confidence < c.min_confidence THEN "Low confidence"
                 ELSE IF o.cost > c.max_cost THEN "Cost too high"
                 ELSE IF EvidenceCount(Heap, h) < c.min_evidence THEN "Insufficient evidence"
                 ELSE IF Len(st.contradictions) > c.max_contradictions
                      THEN "Too many contradictions"
                 ELSE IF c.convergence_required
                         /\ \E i \in own : ~results[i].converged
                      THEN "Did not converge"
                 ELSE IF st.uncertainty = EnumLevel(UNKNOWN) /\ o.confidence < 50
                      THEN "High uncertainty with low confidence"
                 ELSE ""
               matched == o.eliminated \/ reason # ""
           IN  IF matched
               THEN /\ hyp'[h].eliminated
                    /\ hyp'[h].elimination_reason = reason
                    /\ h \in Range(eliminated')
                    /\ h \notin Range(surviving')
               ELSE /\ ~hyp'[h].eliminated
                    /\ hyp'[h].elimination_reason = o.elimination_reason
                    /\ h \in Range(surviving')
                    /\ h \notin Range(eliminated')]_vars

\* C14: when a call of eliminate_weak returns, its two lists partition the
\* input: each is the input list restricted to its members, in input order,
\* and every input hypothesis is in exactly one of them.  Every hypothesis
\* of the eliminated list is marked eliminated with a non-empty reason;
\* every hypothesis of the surviving list is not marked, and its reason is
\* what it was before the call.
C14_EliminationPartitions ==
    [][(phase = "rp_returned" /\ phase' = "eliminated") =>
         /\ surviving' = SelectSeq(hypotheses, LAMBDA h : h \in Range(surviving'))
         /\ eliminated' = SelectSeq(hypotheses, LAMBDA h : h \in Range(eliminated'))
         /\ Range(surviving') \cup Range(eliminated') = Range(hypotheses)
         /\ Range(surviving') \cap Range(eliminated') = {}
         /\ Len(surviving') + Len(eliminated') = Len(hypotheses)
         /\ \A h \in Range(eliminated') :
               hyp'[h].eliminated /\ hyp'[h].elimination_reason # ""
         /\ \A h \in Range(surviving') :
               /\ ~hyp'[h].eliminated
               /\ hyp'[h].elimination_reason = hyp[h].elimination_reason]_vars

\* a call returned a survivor, a hypothesis it eliminated itself, or one that
\* was eliminated before the call, out of two inputs
C14_Witness ==
    /\ entry = "run_parallel" /\ phase = "eliminated"
    /\ Len(hypotheses) = 2
    /\ surviving # <<>> /\ eliminated # <<>>

\* C15: when a call of eliminate_weak with convergence_required set returns,
\* a hypothesis that was not eliminated before and passes the confidence,
\* cost, evidence and contradiction criteria is eliminated for
\* non-convergence exactly when the result run_parallel produced for that
\* very hypothesis did not converge.
C15_OwnResultDecides ==
    [][(phase = "rp_returned" /\ phase' = "eliminated"
        /\ config'.criteria.convergence_required) =>
         \A k \in DOMAIN hypotheses :
           LET h == hypotheses[k]
               o == hyp[h]
               c == config'.criteria
               passes == /\ ~o.eliminated
                         /\ ~(o.confidence < c.min_confidence)
                         /\ ~(o.cost > c.max_cost)
                         /\ ~(EvidenceCount(Heap, h) < c.min_evidence)
                         /\ ~(Len(states[o.state].contradictions) > c.max_contradictions)
           IN  passes =>
                 ( (hyp'[h].eliminated /\ hyp'[h].elimination_reason = "Did not converge")
                   <=> \E i \in DOMAIN results :
                          results[i].hypothesis = h /\ ~results[i].converged )]_vars

C17_ContinueSearch ==
    (entry = "api" /\ output.kind = "should_continue_search") =>
      LET reached == \E h \in Range(hypotheses) :
                        ~hyp[h].eliminated /\ hyp[h].confidence >= output.threshold
      IN  /\ ~output.value => reached
          /\ hypotheses = <<>> => output.value
          /\ (\A h \in Range(hypotheses) : hyp[h].eliminated) => output.value
          /\ ~reached => output.value

\* C18: should_fork(hypothesis) is true exactly when the hypothesis's state
\* has a contradiction, the contradiction appended last has severity > 0.6
\* and 0.3 < hypothesis.confidence < 0.7, every bound strict; the test that
\* execute applies gives the same answer.
C18_ShouldFork ==
    (entry = "api" /\ output.kind = "should_fork") =>
      LET o == hyp[output.hypothesis]
          cs == states[o.state].contradictions
      IN  /\ output.engine <=> ( /\ Len(cs) >= 1
                                 /\ cs[Len(cs)].severity > 60
                                 /\ o.confidence > 30
                                 /\ o.confidence < 70 )
          /\ output.core = output.engine

\* should_fork answered true: the caller's hypothesis holds two pieces of
\* evidence that contradict each other with severity above 0.6
C18_Witness ==
    /\ entry = "api" /\ output.kind = "should_fork"
    /\ output.engine /\ output.core
    /\ states[hyp[output.hypothesis].state].contradictions # <<>>

\* C19: synthesize called with an empty list of survivors returns the fixed
\* artifact: the decision "Unable to reach decision...", confidence 0.0,
\* interval (0.0, 0.0), uncertainty UNKNOWN, no evidence, no contradictions,
\* no alternatives, no contributing ids, and as eliminated_hypotheses the
\* ids of the eliminated list in its order.
C19_EmptySynthesis ==
    (entry = "api" /\ output.kind = "synthesized") =>
      LET surv == IF phase = "eliminated" THEN surviving ELSE hypotheses
          elim == IF phase = "eliminated" THEN eliminated ELSE <<>>
      IN  surv = <<>> =>
            /\ output.decision = <<"Unable to reach decision. All hypotheses eliminated.">>
            /\ output.confidence = 0
            /\ output.confidence_interval = <<0, 0>>
            /\ output.uncertainty_level = "UNKNOWN"
            /\ output.evidence_summary = <<>>
            /\ output.contradictions = <<>>
            /\ output.alternatives = <<>>
            /\ output.contributing_hypotheses = <<>>
            /\ output.eliminated_hypotheses = [i \in DOMAIN elim |-> hyp[elim[i]].id]

\* synthesize was called after an elimination that left no survivor out of
\* two hypotheses, one of which holds evidence
C19_Witness ==
    /\ entry = "api" /\ output.kind = "synthesized"
    /\ phase = "eliminated" /\ surviving = <<>>
    /\ Len(eliminated) = 2
    /\ output.eliminated_hypotheses = <<1, 2>>
    /\ \E h \in Range(eliminated) :
          AllEvidence(lists, states[hyp[h].state].knowledge) # <<>>

\* C20: for a non-empty list of survivors the confidence interval of the
\* synthesized state is exactly (minimum, maximum) of the survivors' own
\* confidences; the aggregated confidence is not bound to lie inside it
\* (C20_Witness is a synthesis whose confidence lies below the interval).
C20_IntervalIsMinMax ==
    (entry = "api" /\ output.kind = "synthesized") =>
      LET surv == IF phase = "eliminated" THEN surviving ELSE hypotheses
      IN  surv # <<>> =>
            /\ \E h \in Range(surv) : output.confidence_interval[1] = hyp[h].confidence
            /\ \E h \in Range(surv) : output.confidence_interval[2] = hyp[h].confidence
            /\ \A h \in Range(surv) :
                  /\ output.confidence_interval[1] <= hyp[h].confidence
                  /\ hyp[h].confidence <= output.confidence_interval[2]

\* synthesize returned, for two survivors of different confidence, a
\* confidence outside the interval it returned
C20_Witness ==
    /\ entry = "api" /\ output.kind = "synthesized"
    /\ LET surv == IF phase = "eliminated" THEN surviving ELSE hypotheses
       IN  /\ Len(surv) = 2
           /\ hyp[surv[1]].confidence # hyp[surv[2]].confidence
    /\ output.confidence_interval[1] < output.confidence_interval[2]
    /\ \/ output.confidence < output.confidence_interval[1]
       \/ output.confidence > output.confidence_interval[2]

\* C21: the evidence summary of synthesize holds only evidence of the
\* surviving hypotheses, no two items with the same (source, first 100
\* characters of content), is sorted by confidence non-increasing, has at
\* most 10 items, holds every distinct key when there are at most 10, and
\* otherwise leaves out only distinct items (the first held of each key) no
\* more confident than those it keeps.
C21_EvidenceSummary ==
    (output.kind = "synthesized" /\ entry = "api") =>
      LET surv == IF phase = "eliminated" THEN surviving ELSE hypotheses
          summary == output.evidence_summary
          KeyOf(e) == <<e.source, Prefix100(e.content)>>
          all == EvidenceOf(Heap, surv)
          distinct == {i \in DOMAIN all : \A j \in 1..(i - 1) : KeyOf(all[j]) # KeyOf(all[i])}
      IN  /\ \A i \in DOMAIN summary : \E j \in distinct : summary[i] = all[j]
          /\ \A i, j \in DOMAIN summary : i # j => KeyOf(summary[i]) # KeyOf(summary[j])
          /\ \A i, j \in DOMAIN summary : i < j => summary[i].confidence >= summary[j].confidence
          /\ Len(summary) = Min(10, Cardinality(distinct))
          /\ \A j \in distinct :
                (\A i \in DOMAIN summary : KeyOf(summary[i]) # KeyOf(all[j])) =>
                   \A i \in DOMAIN summary : all[j].confidence <= summary[i].confidence

\* synthesize was called on survivors holding twelve distinct items of rising
\* confidence, one of them twice, and an eliminated hypothesis holding more
C21_Witness ==
    /\ output.kind = "synthesized"
    /\ Len(EvidenceOf(Heap, surviving)) = 13
    /\ EvidenceOf(Heap, surviving)[1].confidence < EvidenceOf(Heap, surviving)[2].confidence
    /\ Len(output.evidence_summary) = 10
    /\ EvidenceOf(Heap, eliminated) # <<>>

C23_OpposingPair ==
    (/\ output.kind = "generated"
     /\ output.intent.decision_type = "comparative"
     /\ output.strategies # <<>>) =>
      \A d \in {"Hypothesis: First option is superior",
                "Hypothesis: Second option is superior"} :
         \E i \in DOMAIN hypotheses :
            /\ hyp[hypotheses[i]].description = <<d>>
            /\ hyp[hypotheses[i]].source_strategy = output.strategies[1]

\* C24: fork_hypothesis(h) returns a hypothesis with an id other than h's,
\* the description 'Forked from: ' + h.description, h's assumptions, the
\* same source strategy, a state of its own that shares nothing with h's
\* state, h's confidence and cost, and eliminated = false; h, its fields and
\* its state, are as before the call.
C24_ForkHypothesis ==
    output.kind = "forked" =>
      LET B == output.before
          o == B.hyp[output.origin]
          f == hyp[output.forked]
          ListsOfState(sid) == {states[sid].knowledge[t].list : t \in DOMAIN states[sid].knowledge}
      IN  /\ f.id # o.id
          /\ f.description = <<"Forked from: ">> \o o.description
          /\ f.assumptions = o.assumptions
          /\ f.source_strategy = o.source_strategy
          /\ f.state # o.state
          /\ ListsOfState(f.state) \cap ListsOfState(o.state) = {}
          /\ f.confidence = o.confidence /\ f.cost = o.cost
          /\ f.eliminated = FALSE
          /\ hyp[output.origin] = o
          /\ states[o.state] = B.states[o.state]
          /\ \A l \in DOMAIN B.lists : lists[l] = B.lists[l]

\* C25: in every reachable Cognitive State, confidence lies in [0,1], and
\* after each mutating operation (add_evidence, detect_contradictions) the
\* confidence of the state operated on equals the value recomputed from its
\* current evidence and its current contradictions.
C25_ConfidenceRecomputed ==
    entry = "state_api" =>
      /\ \A sid \in DOMAIN states : states[sid].confidence \in 0..100
      /\ (last_call.op \in {"add_evidence", "detect_contradictions"}) =>
            states[last_call.sid].confidence = UpdateConfidence(Heap, last_call.sid)

\* C29: over a run a pair of evidence items contributes at most one
\* Contradiction to state.contradictions, so the number of contradictions
\* of a state never exceeds the number of contradictory pairs of evidence
\* items it holds.
C29_ContradictionsOncePerPair ==
    \A sid \in DOMAIN states :
       LET know == states[sid].knowledge
           pairs == { p \in (DOMAIN know) \X (1..(2 * MaxIterations + 2))
                                          \X (1..(2 * MaxIterations + 2)) :
                        /\ p[2] < p[3]
                        /\ p[3] <= Len(lists[know[p[1]].list])
                        /\ IsContradictory(lists[know[p[1]].list][p[2]],
                                           lists[know[p[1]].list][p[3]]) }
       IN  Len(states[sid].contradictions) <= Cardinality(pairs)

\* C26: elimination is permanent.  run_parallel starts no loop for a
\* hypothesis that is eliminated; and from the moment a hypothesis is marked
\* eliminated, its flag stays true and its elimination_reason stays as it
\* is, no loop is started for it, rank_hypotheses and select_best do not
\* return it, and every later eliminate_weak call puts it in its eliminated
\* list and not among the survivors.
C26_EliminationPermanent ==
    [][/\ (tasks = <<>> /\ tasks' # <<>>) =>
             \A i \in DOMAIN tasks' : ~hyp'[tasks'[i].h].eliminated
       /\ \A h \in DOMAIN hyp :
            hyp[h].eliminated =>
              /\ hyp'[h].eliminated
              /\ hyp'[h].elimination_reason = hyp[h].elimination_reason
              /\ \A i \in DOMAIN tasks' :
                    tasks'[i].h = h => (i \in DOMAIN tasks /\ tasks[i].h = h)
              /\ output'.kind = "ranked" =>
                    (h \notin Range(output'.ranked) /\ h \notin Range(output'.best))
              /\ (phase' \in {"eliminated", "eliminated_again"} /\ phase' # phase
                  /\ h \in Range(hypotheses)) =>
                    (h \in Range(eliminated') /\ h \notin Range(surviving'))
      ]_vars

\* after two eliminate_weak calls and a ranking: one hypothesis was handed
\* to run_parallel eliminated, the other ran its loop and survived
C26_Witness ==
    /\ entry = "run_parallel" /\ phase = "eliminated_again"
    /\ output.kind = "ranked" /\ output.ranked # <<>>
    /\ Len(hypotheses) = 2
    /\ eliminated # <<>> /\ surviving # <<>>
    /\ \E h \in Range(eliminated) : \A i \in DOMAIN tasks : tasks[i].h # h

\* C27: the ranking of rank_hypotheses and the artifact of synthesize (its
\* confidence, interval, evidence summary, contradictions and alternatives)
\* are the same for every permutation of the hypothesis list they are given.
C27_OrderInsensitive ==
    entry = "api" =>
      LET surv == IF phase = "eliminated" THEN surviving ELSE hypotheses
          elim == IF phase = "eliminated" THEN eliminated ELSE <<>>
          Perms(hs) == {p \in [DOMAIN hs -> Range(hs)] : Range(p) = Range(hs)}
      IN  /\ output.kind = "ranked" =>
                \A p \in Perms(hypotheses) : RankHypotheses(Heap, p) = output.ranked
          /\ output.kind = "synthesized" =>
                \A p \in Perms(surv) :
                   LET other == Synthesize(Heap, p, elim) IN
                   /\ other.confidence = output.confidence
                   /\ other.confidence_interval = output.confidence_interval
                   /\ other.evidence_summary = output.evidence_summary
                   /\ other.contradictions = output.contradictions
                   /\ other.alternatives = output.alternatives

C30_NextQueryByRule ==
    entry = "run" =>
      \A i \in DOMAIN tasks :
         LET t == tasks[i]
             o == hyp[t.h]
             st == states[o.state]
             template == <<o.source_strategy.query_template>>
             expected ==
                 IF AllEvidence(lists, st.knowledge) = <<>> THEN template
                 ELSE IF st.uncertainty \in {EnumLevel(HIGH), EnumLevel(UNKNOWN)}
                      THEN <<"alternative view">> \o template
                 ELSE IF st.contradictions # <<>>
                      THEN <<"clarify", st.contradictions[Len(st.contradictions)].claim_a>>
                 ELSE IF st.confidence < 50 THEN <<"detailed">> \o template
                 ELSE <<>>
         IN  /\ t.pc = "awaiting" => t.query = expected
             /\ (t.pc = "returned" /\ t.convergence_reason = "no_more_queries") =>
                   expected = <<>>

\* C31: after each successful query that stored evidence, the state's
\* confidence is clamp(mean of all evidence confidences + min(0.2, 0.04 x
\* distinct sources) - min(0.3, 0.05 x contradictions), 0, 1), the
\* contradictions counted as the recomputation finds them; a loop that
\* returns right after reports this value as final_confidence.
C31_StateConfidenceRecomputed ==
    [][\A i \in DOMAIN tasks :
          LET sid == hyp[tasks[i].h].state
              all == AllEvidence(lists', states'[sid].knowledge)
              value == Clamp01((SumConfidence(all) \div Len(all))
                         + Min(20, 4 * Cardinality(states'[sid].sources_accessed))
                         - Min(30, 5 * Len(states[sid].contradictions)))
          IN  (/\ tasks'[i].attempts = tasks[i].attempts + 1
               /\ ~FailedOutcome(tasks'[i].hist[Len(tasks'[i].hist)])
               /\ all # <<>>)
              => /\ states'[sid].confidence = value
                 /\ tasks'[i].pc = "returned" =>
                       tasks'[i].final_confidence = states'[sid].confidence]_vars

\* C32: detect_contradictions(topic) returns exactly one Contradiction for
\* each pair of evidence items of the topic of which exactly one text has a
\* negation word and whose texts share at least 4 distinct words, and none
\* for any other pair; each severity is the absolute difference of the two
\* confidences and lies in [0,1]; for a topic without evidence it returns
\* the empty list and changes nothing.
C32_DetectContradictions ==
    [][(last_call'.n = last_call.n + 1 /\ last_call'.op = "detect_contradictions") =>
          LET sid == last_call'.sid
              topic == last_call'.topic
              returned == last_call'.returned
              know == states[sid].knowledge
              evs == IF HasTopic(know, topic) THEN lists[TopicList(know, topic)] ELSE <<>>
              Negated(e) ==
                  Words(e.content) \cap {"not", "no", "never", "neither", "none", "nobody"} # {}
              Opposed(a, b) ==
                  /\ Negated(a) # Negated(b)
                  /\ Cardinality(Words(a.content) \cap Words(b.content)) >= 4
              pairs == {p \in (DOMAIN evs) \X (DOMAIN evs) :
                           p[1] < p[2] /\ Opposed(evs[p[1]], evs[p[2]])}
              Names(c, p) ==
                  /\ c.claim_a = Prefix100(evs[p[1]].content)
                  /\ c.claim_b = Prefix100(evs[p[2]].content)
                  /\ c.source_a = evs[p[1]].source /\ c.source_b = evs[p[2]].source
                  /\ c.severity = Abs(evs[p[1]].confidence - evs[p[2]].confidence)
          IN  /\ Len(returned) = Cardinality(pairs)
              /\ \E f \in [DOMAIN returned -> pairs] :
                    /\ \A j, k \in DOMAIN returned : j # k => f[j] # f[k]
                    /\ \A k \in DOMAIN returned : Names(returned[k], f[k])
              /\ \A k \in DOMAIN returned :
                    returned[k].severity >= 0 /\ returned[k].severity <= 100
              /\ evs = <<>> =>
                    /\ returned = <<>>
                    /\ hyp' = hyp /\ states' = states /\ lists' = lists]_vars

\* a call returned one contradiction for a topic of three items, among them
\* a pair with one negation and no shared word
C32_Witness ==
    /\ last_call.op = "detect_contradictions"
    /\ Len(last_call.returned) = 1
    /\ LET know == states[last_call.sid].knowledge
           evs == lists[TopicList(know, last_call.topic)]
       IN  /\ Len(evs) = 3
           /\ \E i, j \in DOMAIN evs :
                 evs[i].content = "essay" /\ evs[j].content = "the sky is not blue today"

\* C33: during a run every evidence list is append-only (what it held
\* before a step is a prefix of what it holds after), every state keeps its
\* topics in place, and the evidence of a query that returned is appended
\* to the end of its hypothesis's topic, in the order it was returned, so
\* that the evidence of query k precedes that of query k+1.
C33_EvidenceAppendOnly ==
    [][/\ \A l \in DOMAIN lists :
             /\ l \in DOMAIN lists'
             /\ Len(lists[l]) <= Len(lists'[l])
             /\ lists[l] = SubSeq(lists'[l], 1, Len(lists[l]))
       /\ \A s \in DOMAIN states :
             /\ s \in DOMAIN states'
             /\ Len(states[s].knowledge) <= Len(states'[s].knowledge)
             /\ states[s].knowledge
                   = SubSeq(states'[s].knowledge, 1, Len(states[s].knowledge))
       /\ \A i \in DOMAIN tasks :
             (i \in DOMAIN tasks' /\ tasks'[i].attempts = tasks[i].attempts + 1) =>
                LET o == hyp[tasks[i].h]
                    outcome == tasks'[i].hist[Len(tasks'[i].hist)]
                    new == IF outcome.raises THEN <<>>
                           ELSE QueryNetwork(estimator, outcome.results)
                    know == states[o.state].knowledge
                    know2 == states'[o.state].knowledge
                    before == IF HasTopic(know, o.description)
                              THEN lists[TopicList(know, o.description)] ELSE <<>>
                    after == IF HasTopic(know2, o.description)
                             THEN lists'[TopicList(know2, o.description)] ELSE <<>>
                IN  after = before \o new]_vars

\* the second query of a loop has added its evidence behind that of the first
C33_Witness ==
    \E i \in DOMAIN tasks :
        LET o == hyp[tasks[i].h]
            know == states[o.state].knowledge
        IN  /\ tasks[i].attempts = 2
            /\ HasTopic(know, o.description)
            /\ Len(lists[TopicList(know, o.description)]) = 2
            /\ lists[TopicList(know, o.description)][1].content = "the sky is blue today"
            /\ lists[TopicList(know, o.description)][2].content = "essay"

\* C34: a run that returned converged = true reports a final_confidence of
\* at least the loop's confidence threshold.
C34_ConvergedMeansConfident ==
    \A i \in DOMAIN tasks :
        (tasks[i].pc = "returned" /\ tasks[i].converged)
        => tasks[i].final_confidence >= config.confidence_threshold

\* C35: a run issues at most max_iterations queries to the Evidence Source,
\* failed attempts included, and a run that returned reports as iterations
\* the number of its query attempts plus one, a number between 1 and
\* max_iterations + 1.
C35_QueriesBounded ==
    \A i \in DOMAIN tasks :
        /\ tasks[i].attempts + Issued(tasks[i]) <= config.max_iterations
        /\ tasks[i].pc = "returned" =>
              /\ tasks[i].iteration = tasks[i].attempts + 1
              /\ 1 <= tasks[i].iteration
              /\ tasks[i].iteration <= config.max_iterations + 1

\* a run has returned after max_iterations attempts, the first of them failed
C35_Witness ==
    \E i \in DOMAIN tasks :
        /\ tasks[i].pc = "returned"
        /\ config.max_iterations = MaxIterations
        /\ tasks[i].attempts = config.max_iterations
        /\ tasks[i].hist[1].raises
        /\ ~tasks[i].hist[MaxIterations].raises
        /\ tasks[i].iteration = MaxIterations + 1

\* C36: no query is issued while the accumulated cost of the run is at or
\* above the budget; with a budget above 0 the total_cost of a run that
\* returned is below the budget plus the cost of one query of the
\* hypothesis's strategy.
C36_BudgetOvershoot ==
    \A i \in DOMAIN tasks :
        /\ tasks[i].pc = "awaiting" => tasks[i].total_cost < config.budget
        /\ (tasks[i].pc = "returned" /\ config.budget > 0) =>
              tasks[i].total_cost
                  < config.budget + hyp[tasks[i].h].source_strategy.cost

\* a run stopped on its budget after a query that used the budget up
C36_Witness ==
    \E i \in DOMAIN tasks :
        /\ tasks[i].pc = "returned"
        /\ tasks[i].convergence_reason = "budget_exceeded"
        /\ config.budget > 0
        /\ tasks[i].attempts >= 1
        /\ tasks[i].total_cost >= config.budget

\* C37: no step of a run lowers the cost of a hypothesis: a fork that
\* starts its run with the cost copied from its origin never has less.
C37_CostNeverDecreases ==
    [][\A h \in DOMAIN hyp : hyp'[h].cost >= hyp[h].cost]_vars

\* C38: in execute with the built-in evidence-confidence heuristic every
\* evidence confidence lies in [0.4, 0.9] and every recorded contradiction
\* has a severity of at most 0.5, so that no fork is created and the
\* second run_parallel pass never runs.
C38_BuiltinNeverForks ==
    (entry = "execute" /\ estimator = "builtin") =>
        /\ \A l \in DOMAIN lists : \A k \in DOMAIN lists[l] :
              lists[l][k].confidence >= 40 /\ lists[l][k].confidence <= 90
        /\ \A s \in DOMAIN states : \A k \in DOMAIN states[s].contradictions :
              states[s].contradictions[k].severity <= 50
        /\ forked_hypotheses = <<>>
        /\ Len(hyp) = Len(hypotheses)
        /\ phase # "fork_pass"

\* execute has returned without a fork although a hypothesis of middling
\* confidence ends on a contradiction between evidence of different
\* confidence, and another evidence item has the confidence 0.9
C38_Witness ==
    /\ entry = "execute" /\ estimator = "builtin" /\ phase = "returned"
    /\ \E h \in DOMAIN hyp :
          LET cs == states[hyp[h].state].contradictions IN
          /\ cs # <<>> /\ cs[Len(cs)].severity > 0
          /\ hyp[h].confidence > 30 /\ hyp[h].confidence < 70
    /\ \E l \in DOMAIN lists : \E k \in DOMAIN lists[l] : lists[l][k].confidence = 90
    /\ \E l \in DOMAIN lists : \E k \in DOMAIN lists[l] : lists[l][k].confidence = 40

\* C39: in every result execute returns, total is the number of hypotheses
\* generated plus the forks created, eliminated is the number of hypotheses
\* the eliminator eliminated, and total = surviving + eliminated, also when
\* no hypothesis survives.
C39_CountsDescribeExecution ==
    (entry = "execute" /\ phase = "returned") =>
        /\ output.total = Len(hyp)
        /\ output.eliminated = Cardinality({h \in DOMAIN hyp : hyp[h].eliminated})
        /\ output.total = output.surviving + output.eliminated

\* C40: when a survivor has a confidence above 0 and at least one evidence
\* item, the aggregated confidence synthesize computes lies within the
\* interval [lowest, highest survivor confidence] it computes; it lies
\* outside only when the total weight is 0, and then it is 0.0.
C40_AggregateWithinInterval ==
    (entry = "api" /\ output.kind = "synthesized" /\ surviving # <<>>) =>
        LET F == ConfidenceInFloats(Heap, surviving) IN
        /\ (\E h \in Range(surviving) : hyp[h].confidence > 0 /\ EvidenceCount(Heap, h) >= 1)
              => F.inside
        /\ ~F.inside => (F.total_weight.m = 0 /\ F.confidence.m = 0)

=============================================================================
